---- MODULE Spec2Model ----
(***************************************************************************)
(* A model of the campus assistant's query-resolution pipeline:           *)
(* TopicRegistry (topic_registry.py), NLPProcessor (nlp_processor.py) and *)
(* the session loop CampusAssistant.handle_query (main.py).               *)
(*                                                                         *)
(* Python strings are sequences of characters.  An ASCII character is     *)
(* the one-character string itself; any other character is written as    *)
(* its code point, "uXXXX" (找 is "u627e").  Optional[...] values are     *)
(* records: None, or Some(v).                                              *)
(***************************************************************************)
EXTENDS Integers, Sequences, FiniteSets, TLC

----------------------------------------------------------------------------
(* Bounds of the model *)

\* How many topic files may be missing, unreadable or blank at one time.
MaxAbnormalFiles == 1

\* The longest history handed to process_query directly.
MaxHistory == 12

\* The number of handle_query calls in one session.
MaxQueries == 7

\* The number of keywords a topic document lists.
MaxKeywords == 2

\* The most rows of chat_logs.
MaxLogs == 3

\* The number of threads that call get_topic on the one registry.
MaxThreads == 3

----------------------------------------------------------------------------
(* Python values *)

None == [none |-> TRUE]

Some(v) == [none |-> FALSE, val |-> v]

\* Python truthiness of an Optional[str] or Optional[list]: `if x:`
Truthy(x) == ~x.none /\ x.val # << >>

UpperCase == <<"A", "B", "C", "D", "E", "F", "G", "H", "I", "J", "K", "L", "M",
               "N", "O", "P", "Q", "R", "S", "T", "U", "V", "W", "X", "Y", "Z">>

LowerCase == <<"a", "b", "c", "d", "e", "f", "g", "h", "i", "j", "k", "l", "m",
               "n", "o", "p", "q", "r", "s", "t", "u", "v", "w", "x", "y", "z">>

\* The lower-case letter of every upper-case letter.
LowerOf == [c \in {UpperCase[i] : i \in DOMAIN UpperCase} |->
               LowerCase[CHOOSE i \in DOMAIN UpperCase : UpperCase[i] = c]]

LowerChar(c) == IF c \in DOMAIN LowerOf THEN LowerOf[c] ELSE c

\* str.lower()
lower(s) == [i \in DOMAIN s |-> LowerChar(s[i])]

\* The characters str.strip() removes: space, tab, newline, return, U+3000.
Whitespace == {" ", "\t", "\n", "\r", "u3000"}

\* str.strip()
strip(s) ==
    LET keep == {i \in DOMAIN s : s[i] \notin Whitespace}
    IN  IF keep = {} THEN << >>
        ELSE LET lo == CHOOSE i \in keep : \A j \in keep : i <= j
                 hi == CHOOSE i \in keep : \A j \in keep : j <= i
             IN  SubSeq(s, lo, hi)

\* `sub in s` on strings
In(sub, s) ==
    \E i \in 0..(Len(s) - Len(sub)) : SubSeq(s, i + 1, i + Len(sub)) = sub

\* s.startswith(prefix)
startswith(s, prefix) ==
    /\ Len(prefix) <= Len(s)
    /\ SubSeq(s, 1, Len(prefix)) = prefix

\* s.split("\n"): the pieces between newlines, always at least one piece
split(s) ==
    LET breaks == {i \in DOMAIN s : s[i] = "\n"}
        n      == Cardinality(breaks)
        at(k)  == IF k = 0 THEN 0
                  ELSE IF k = n + 1 THEN Len(s) + 1
                  ELSE CHOOSE p \in breaks :
                           Cardinality({q \in breaks : q < p}) = k - 1
    IN  [k \in 1..(n + 1) |-> SubSeq(s, at(k - 1) + 1, at(k) - 1)]

\* sep.join(parts)
RECURSIVE join(_, _)
join(sep, parts) ==
    IF parts = << >> THEN << >>
    ELSE IF Len(parts) = 1 THEN parts[1]
    ELSE parts[1] \o sep \o join(sep, Tail(parts))

\* parts[lo:hi] with 0-based, clamped Python slice bounds, 0 <= lo <= hi
Slice(parts, lo, hi) ==
    SubSeq(parts, lo + 1, IF hi < Len(parts) THEN hi ELSE Len(parts))

\* xs[-n:] for n > 0
LastN(xs, n) ==
    IF Len(xs) <= n THEN xs ELSE SubSeq(xs, Len(xs) - n + 1, Len(xs))

----------------------------------------------------------------------------
(* Fixed texts of nlp_processor.py and the topic table of topic_registry.py *)

\* system_prompt up to {context}: '你是一个专业的校园助手，请根据以下信息回答问题：\n        \n'
SYSTEM_PROMPT_HEAD ==
    <<"u4f60", "u662f", "u4e00", "u4e2a", "u4e13", "u4e1a", "u7684", "u6821", "u56ed", "u52a9",
      "u624b", "uff0c", "u8bf7", "u6839", "u636e", "u4ee5", "u4e0b", "u4fe1", "u606f", "u56de",
      "u7b54", "u95ee", "u9898", "uff1a", "\n", " ", " ", " ", " ", " ", " ", " ", " ", "\n">>

\* system_prompt after {context}: '\n\n回答要求:\n1. 严格遵循文档内容,若文档中找不到则返回找不到相关信息\n2. 简洁明了(3-5句话)\n3. 使用与问题相同的语言\n4. 如涉及流程，分步骤说明\n5. 结合对话历史上下文进行回答'
SYSTEM_PROMPT_TAIL ==
    <<"\n", "\n", "u56de", "u7b54", "u8981", "u6c42", ":", "\n", "1", ".", " ", "u4e25",
      "u683c", "u9075", "u5faa", "u6587", "u6863", "u5185", "u5bb9", ",", "u82e5", "u6587",
      "u6863", "u4e2d", "u627e", "u4e0d", "u5230", "u5219", "u8fd4", "u56de", "u627e", "u4e0d",
      "u5230", "u76f8", "u5173", "u4fe1", "u606f", "\n", "2", ".", " ", "u7b80", "u6d01",
      "u660e", "u4e86", "(", "3", "-", "5", "u53e5", "u8bdd", ")", "\n", "3", ".", " ",
      "u4f7f", "u7528", "u4e0e", "u95ee", "u9898", "u76f8", "u540c", "u7684", "u8bed", "u8a00",
      "\n", "4", ".", " ", "u5982", "u6d89", "u53ca", "u6d41", "u7a0b", "uff0c", "u5206",
      "u6b65", "u9aa4", "u8bf4", "u660e", "\n", "5", ".", " ", "u7ed3", "u5408", "u5bf9",
      "u8bdd", "u5386", "u53f2", "u4e0a", "u4e0b", "u6587", "u8fdb", "u884c", "u56de", "u7b54">>

\* "找不到相关信息，请尝试其他查询"
NOT_FOUND ==
    <<"u627e", "u4e0d", "u5230", "u76f8", "u5173", "u4fe1", "u606f", "uff0c", "u8bf7", "u5c1d",
      "u8bd5", "u5176", "u4ed6", "u67e5", "u8be2">>

\* "找不到"
NOT_FOUND_MARKER ==
    <<"u627e", "u4e0d", "u5230">>

\* "API认证失败，请检查配置"
MSG_AUTH ==
    <<"A", "P", "I", "u8ba4", "u8bc1", "u5931", "u8d25", "uff0c", "u8bf7", "u68c0", "u67e5",
      "u914d", "u7f6e">>

\* "网络连接失败，请检查网络设置"
MSG_CONNECTION ==
    <<"u7f51", "u7edc", "u8fde", "u63a5", "u5931", "u8d25", "uff0c", "u8bf7", "u68c0", "u67e5",
      "u7f51", "u7edc", "u8bbe", "u7f6e">>

\* "请求过于频繁，请稍后再试"
MSG_RATE_LIMIT ==
    <<"u8bf7", "u6c42", "u8fc7", "u4e8e", "u9891", "u7e41", "uff0c", "u8bf7", "u7a0d", "u540e",
      "u518d", "u8bd5">>

\* "服务暂时不可用"
MSG_UNAVAILABLE ==
    <<"u670d", "u52a1", "u6682", "u65f6", "u4e0d", "u53ef", "u7528">>

\* greetings = {"你好", "hi", "hello", "早上好", "下午好", "晚上好"}
\* greetings with the phrases "谢谢" and "thanks" added.
greetings_with_thanks ==
    { <<"u4f60", "u597d">>,
      <<"h", "i">>,
      <<"h", "e", "l", "l", "o">>,
      <<"u65e9", "u4e0a", "u597d">>,
      <<"u4e0b", "u5348", "u597d">>,
      <<"u665a", "u4e0a", "u597d">>,
      <<"u8c22", "u8c22">>,
      <<"t", "h", "a", "n", "k", "s">> }

\* greetings of _detect_intent
greetings ==
    { <<"u4f60", "u597d">>,
      <<"h", "i">>,
      <<"h", "e", "l", "l", "o">>,
      <<"u65e9", "u4e0a", "u597d">>,
      <<"u4e0b", "u5348", "u597d">>,
      <<"u665a", "u4e0a", "u597d">> }

\* responses: the phrase -> reply table of _handle_greeting
responses ==
    <<
      \* "你好": "你好！我是校园助手，有什么可以帮你的吗？"
      [key |-> <<"u4f60", "u597d">>,
       reply |-> <<"u4f60", "u597d", "uff01", "u6211", "u662f", "u6821", "u56ed", "u52a9", "u624b", "uff0c", "u6709", "u4ec0", "u4e48", "u53ef", "u4ee5", "u5e2e", "u4f60", "u7684", "u5417", "uff1f">>],
      \* "hi": "Hi! 我是校园助手，有什么可以帮你的吗？"
      [key |-> <<"h", "i">>,
       reply |-> <<"H", "i", "!", " ", "u6211", "u662f", "u6821", "u56ed", "u52a9", "u624b", "uff0c", "u6709", "u4ec0", "u4e48", "u53ef", "u4ee5", "u5e2e", "u4f60", "u7684", "u5417", "uff1f">>],
      \* "hello": "Hello! 我是校园助手，有什么可以帮你的吗？"
      [key |-> <<"h", "e", "l", "l", "o">>,
       reply |-> <<"H", "e", "l", "l", "o", "!", " ", "u6211", "u662f", "u6821", "u56ed", "u52a9", "u624b", "uff0c", "u6709", "u4ec0", "u4e48", "u53ef", "u4ee5", "u5e2e", "u4f60", "u7684", "u5417", "uff1f">>],
      \* "谢谢": "不客气，很高兴能帮到你！"
      [key |-> <<"u8c22", "u8c22">>,
       reply |-> <<"u4e0d", "u5ba2", "u6c14", "uff0c", "u5f88", "u9ad8", "u5174", "u80fd", "u5e2e", "u5230", "u4f60", "uff01">>],
      \* "thanks": "You're welcome! Glad to help!"
      [key |-> <<"t", "h", "a", "n", "k", "s">>,
       reply |-> <<"Y", "o", "u", "'", "r", "e", " ", "w", "e", "l", "c", "o", "m", "e", "!", " ", "G", "l", "a", "d", " ", "t", "o", " ", "h", "e", "l", "p", "!">>],
      \* "再见": "再见，祝你学习愉快！"
      [key |-> <<"u518d", "u89c1">>,
       reply |-> <<"u518d", "u89c1", "uff0c", "u795d", "u4f60", "u5b66", "u4e60", "u6109", "u5feb", "uff01">>],
      \* "拜拜": "拜拜，有问题随时来找我哦~"
      [key |-> <<"u62dc", "u62dc">>,
       reply |-> <<"u62dc", "u62dc", "uff0c", "u6709", "u95ee", "u9898", "u968f", "u65f6", "u6765", "u627e", "u6211", "u54e6", "~">>]
    >>

\* "你好！有什么可以帮你的吗？"
DEFAULT_GREETING ==
    <<"u4f60", "u597d", "uff01", "u6709", "u4ec0", "u4e48", "u53ef", "u4ee5", "u5e2e", "u4f60",
      "u7684", "u5417", "uff1f">>

\* The fixed topic table, in dictionary (insertion) order.
initialize_topics ==
    <<
      \* "academic": 学术资源 / 图书馆、学术支持、学习资源、文献、数据库
      [id |-> <<"a", "c", "a", "d", "e", "m", "i", "c">>,
       display_name |-> <<"u5b66", "u672f", "u8d44", "u6e90">>,
       keywords |-> <<<<"u56fe", "u4e66", "u9986">>,
                     <<"u5b66", "u672f", "u652f", "u6301">>,
                     <<"u5b66", "u4e60", "u8d44", "u6e90">>,
                     <<"u6587", "u732e">>,
                     <<"u6570", "u636e", "u5e93">>>>,
       data_file |-> "data/topics/Academic_Resources.md",
       description |-> <<"u56fe", "u4e66", "u9986", "u3001", "u5b66", "u672f", "u652f", "u6301", "u3001", "u5b66", "u4e60", "u8d44", "u6e90", "u7b49", "u76f8", "u5173", "u4fe1", "u606f">>],
      \* "life_services": 基础生活服务 / 宿舍、洗衣、水电、维修、保洁
      [id |-> <<"l", "i", "f", "e", "_", "s", "e", "r", "v", "i", "c", "e", "s">>,
       display_name |-> <<"u57fa", "u7840", "u751f", "u6d3b", "u670d", "u52a1">>,
       keywords |-> <<<<"u5bbf", "u820d">>,
                     <<"u6d17", "u8863">>,
                     <<"u6c34", "u7535">>,
                     <<"u7ef4", "u4fee">>,
                     <<"u4fdd", "u6d01">>>>,
       data_file |-> "data/topics/Basic_Life_Services.md",
       description |-> <<"u5bbf", "u820d", "u3001", "u6d17", "u8863", "u3001", "u6c34", "u7535", "u7b49", "u57fa", "u7840", "u751f", "u6d3b", "u670d", "u52a1", "u4fe1", "u606f">>],
      \* "activities": 校园活动 / 社团、活动、讲座、比赛、晚会
      [id |-> <<"a", "c", "t", "i", "v", "i", "t", "i", "e", "s">>,
       display_name |-> <<"u6821", "u56ed", "u6d3b", "u52a8">>,
       keywords |-> <<<<"u793e", "u56e2">>,
                     <<"u6d3b", "u52a8">>,
                     <<"u8bb2", "u5ea7">>,
                     <<"u6bd4", "u8d5b">>,
                     <<"u665a", "u4f1a">>>>,
       data_file |-> "data/topics/Campus_Activities_and_Events.md",
       description |-> <<"u793e", "u56e2", "u6d3b", "u52a8", "u3001", "u8bb2", "u5ea7", "u3001", "u6bd4", "u8d5b", "u7b49", "u6821", "u56ed", "u6d3b", "u52a8", "u4fe1", "u606f">>],
      \* "dining": 餐饮选项 / 食堂、清真食堂、餐厅、外卖、美食、营业时间
      [id |-> <<"d", "i", "n", "i", "n", "g">>,
       display_name |-> <<"u9910", "u996e", "u9009", "u9879">>,
       keywords |-> <<<<"u98df", "u5802">>,
                     <<"u6e05", "u771f", "u98df", "u5802">>,
                     <<"u9910", "u5385">>,
                     <<"u5916", "u5356">>,
                     <<"u7f8e", "u98df">>,
                     <<"u8425", "u4e1a", "u65f6", "u95f4">>>>,
       data_file |-> "data/topics/Campus_and_Nearby_Dining_Options.md",
       description |-> <<"u98df", "u5802", "u3001", "u5468", "u8fb9", "u9910", "u5385", "u3001", "u5916", "u5356", "u7b49", "u9910", "u996e", "u4fe1", "u606f">>],
      \* "navigation": 校园导航 / 地图、建筑、设施、位置、导航
      [id |-> <<"n", "a", "v", "i", "g", "a", "t", "i", "o", "n">>,
       display_name |-> <<"u6821", "u56ed", "u5bfc", "u822a">>,
       keywords |-> <<<<"u5730", "u56fe">>,
                     <<"u5efa", "u7b51">>,
                     <<"u8bbe", "u65bd">>,
                     <<"u4f4d", "u7f6e">>,
                     <<"u5bfc", "u822a">>>>,
       data_file |-> "data/topics/Campus_Navigation_and_Facilities.md",
       description |-> <<"u6821", "u56ed", "u5730", "u56fe", "u3001", "u5efa", "u7b51", "u4f4d", "u7f6e", "u3001", "u8bbe", "u65bd", "u4f7f", "u7528", "u7b49", "u4fe1", "u606f">>],
      \* "policies": 校园政策 / 规定、安全、紧急、违纪、申诉
      [id |-> <<"p", "o", "l", "i", "c", "i", "e", "s">>,
       display_name |-> <<"u6821", "u56ed", "u653f", "u7b56">>,
       keywords |-> <<<<"u89c4", "u5b9a">>,
                     <<"u5b89", "u5168">>,
                     <<"u7d27", "u6025">>,
                     <<"u8fdd", "u7eaa">>,
                     <<"u7533", "u8bc9">>>>,
       data_file |-> "data/topics/Campus_Policies_and_Safety.md",
       description |-> <<"u6821", "u56ed", "u89c4", "u5b9a", "u3001", "u5b89", "u5168", "u4e8b", "u9879", "u3001", "u7d27", "u6025", "u5904", "u7406", "u7b49", "u4fe1", "u606f">>],
      \* "courses": 选课指南 / 选课、课程、学分、退选、改选
      [id |-> <<"c", "o", "u", "r", "s", "e", "s">>,
       display_name |-> <<"u9009", "u8bfe", "u6307", "u5357">>,
       keywords |-> <<<<"u9009", "u8bfe">>,
                     <<"u8bfe", "u7a0b">>,
                     <<"u5b66", "u5206">>,
                     <<"u9000", "u9009">>,
                     <<"u6539", "u9009">>>>,
       data_file |-> "data/topics/Course_Selection_Guide.md",
       description |-> <<"u9009", "u8bfe", "u6d41", "u7a0b", "u3001", "u8bfe", "u7a0b", "u8bc4", "u4ef7", "u3001", "u5b66", "u5206", "u8981", "u6c42", "u7b49", "u4fe1", "u606f">>],
      \* "contacts": 重要联系方式 / 电话、办公、部门、紧急、联系
      [id |-> <<"c", "o", "n", "t", "a", "c", "t", "s">>,
       display_name |-> <<"u91cd", "u8981", "u8054", "u7cfb", "u65b9", "u5f0f">>,
       keywords |-> <<<<"u7535", "u8bdd">>,
                     <<"u529e", "u516c">>,
                     <<"u90e8", "u95e8">>,
                     <<"u7d27", "u6025">>,
                     <<"u8054", "u7cfb">>>>,
       data_file |-> "data/topics/Important_Contact_Numbers.md",
       description |-> <<"u91cd", "u8981", "u7535", "u8bdd", "u3001", "u529e", "u516c", "u90e8", "u95e8", "u8054", "u7cfb", "u65b9", "u5f0f", "u7b49", "u4fe1", "u606f">>],
      \* "procedures": 办事流程 / 申请、流程、手续、审批、备案
      [id |-> <<"p", "r", "o", "c", "e", "d", "u", "r", "e", "s">>,
       display_name |-> <<"u529e", "u4e8b", "u6d41", "u7a0b">>,
       keywords |-> <<<<"u7533", "u8bf7">>,
                     <<"u6d41", "u7a0b">>,
                     <<"u624b", "u7eed">>,
                     <<"u5ba1", "u6279">>,
                     <<"u5907", "u6848">>>>,
       data_file |-> "data/topics/Procedures_and_Processes.md",
       description |-> <<"u5404", "u7c7b", "u7533", "u8bf7", "u6d41", "u7a0b", "u3001", "u624b", "u7eed", "u529e", "u7406", "u7b49", "u4fe1", "u606f">>],
      \* "transportation": 周边交通 / 公交、地铁、校车、共享单车、电动车
      [id |-> <<"t", "r", "a", "n", "s", "p", "o", "r", "t", "a", "t", "i", "o", "n">>,
       display_name |-> <<"u5468", "u8fb9", "u4ea4", "u901a">>,
       keywords |-> <<<<"u516c", "u4ea4">>,
                     <<"u5730", "u94c1">>,
                     <<"u6821", "u8f66">>,
                     <<"u5171", "u4eab", "u5355", "u8f66">>,
                     <<"u7535", "u52a8", "u8f66">>>>,
       data_file |-> "data/topics/Surrounding_Transportation.md",
       description |-> <<"u516c", "u4ea4", "u3001", "u5730", "u94c1", "u3001", "u5171", "u4eab", "u5355", "u8f66", "u7b49", "u4ea4", "u901a", "u4fe1", "u606f">>]
    >>

topics == initialize_topics

\* The positions of the ten topics in dictionary order.
TopicIndex == 1..10

\* The one element of a set of positions, 0 for the empty set.
Position(hits) == IF hits = {} THEN 0 ELSE CHOOSE i \in hits : TRUE

\* self.topics.get(key): the position of the topic with that id, 0 for None
topics_get(key) == Position({i \in TopicIndex : topics[i].id = key})

----------------------------------------------------------------------------
(* The document store: one file per topic *)

Letters == LowerCase

Digits == <<"1", "2", "3", "4", "5", "6", "7", "8", "9">>

\* The number of lines of topic i's document: 5, 1, 2, 3, 4, 5, ...
DocLineCount(i) == 1 + ((i + 3) % 5)

\* The document of topic i: lines "a1", "a2", ... for topic 1, "b1" for topic 2, ...
Doc(i) ==
    join(<<"\n">>, [k \in 1..DocLineCount(i) |-> <<Letters[i], Digits[k]>>])

\* A later edition of topic i's document.
AltDoc(i) == <<Letters[i], "0", "\n">> \o Doc(i)

\* A document of white space only.
Blank == <<" ", "\n">>

Missing == [kind |-> "missing", text |-> << >>]

Unreadable == [kind |-> "unreadable", text |-> << >>]

Readable(text) == [kind |-> "ok", text |-> text]

NormalFile(i) == Readable(Doc(i))

AbnormalFiles == {Missing, Unreadable, Readable(Blank)}

FileStates(i) == {NormalFile(i)} \cup AbnormalFiles

Abnormal(f) == {i \in TopicIndex : f[i] # NormalFile(i)}

----------------------------------------------------------------------------
(* State *)

VARIABLES
    file,             \* the document store: topic position -> file state
    content,          \* TopicDefinition.content of every topic of the registry
    message_history,  \* CampusAssistant.message_history
    current_topic,    \* CampusAssistant.current_topic
    DEBUG,            \* Config.DEBUG
    last,             \* the latest call: its arguments and what it did
    chat_history,     \* the chat widget: "blank", or "messages" when it shows any
    current_user,     \* CampusAssistant.current_user
    users,            \* table users of the database, in id order
    chat_logs,        \* table chat_logs of the database, in id order
    json_users,       \* users.json: UserManagerJSON.users, in insertion order
    threads           \* the get_topic calls under way on the shared registry

\* The database, the JSON store and the threads
accounts == <<current_user, users, chat_logs, json_users, threads>>

vars == <<file, content, message_history, current_topic, DEBUG, last, chat_history,
          accounts>>

----------------------------------------------------------------------------
(* TopicRegistry *)

\* The registry while an operation runs: the contents, the number of files
\* opened so far, and whether an exception is propagating.
Registry(c, reads, raised) == [content |-> c, reads |-> reads, raised |-> raised]

\* _load_topic_content without its try/except: a read error propagates
load_topic_content_unguarded(reg, f, i) ==
    IF reg.raised THEN reg
    ELSE IF f[i].kind = "missing" THEN reg
    ELSE IF f[i].kind = "unreadable"
         THEN Registry(reg.content, reg.reads + 1, TRUE)
    ELSE Registry([reg.content EXCEPT ![i] = f[i].text], reg.reads + 1, FALSE)

\* _load_topic_content leaving a mark in content when the load fails.
load_topic_content_poisoning(reg, f, i) ==
    IF reg.raised THEN reg
    ELSE IF f[i].kind = "missing"
         THEN Registry([reg.content EXCEPT ![i] = <<"?">>], reg.reads, FALSE)
    ELSE IF f[i].kind = "unreadable"
         THEN Registry([reg.content EXCEPT ![i] = <<"?">>], reg.reads + 1, FALSE)
    ELSE Registry([reg.content EXCEPT ![i] = f[i].text], reg.reads + 1, FALSE)

\* _load_topic_content(topic_def): os.path.exists, then open/read into
\* topic_def.content; a missing file prints a warning, an exception is
\* caught and printed.  Either way content is left as it was.
load_topic_content(reg, f, i) ==
    IF reg.raised THEN reg
    ELSE IF f[i].kind = "missing" THEN reg
    ELSE IF f[i].kind = "unreadable"
         THEN Registry(reg.content, reg.reads + 1, FALSE)
    ELSE Registry([reg.content EXCEPT ![i] = f[i].text], reg.reads + 1, FALSE)

\* The number of the topics in `loaded` whose file exists (and is opened).
Opened(f, loaded) == Cardinality({i \in loaded : f[i].kind # "missing"})

\* _load_topic_contents(): for every topic, os.path.exists, then open/read
\* into content; a missing file prints a warning, an exception is caught.
load_topic_contents(reg, f) ==
    Registry([i \in TopicIndex |->
                 IF f[i].kind = "ok" THEN f[i].text ELSE reg.content[i]],
             reg.reads + Opened(f, TopicIndex), FALSE)

\* TopicRegistry(): every content "" and then the eager load
TopicRegistry(f) ==
    load_topic_contents(Registry([i \in TopicIndex |-> << >>], 0, FALSE), f)

\* get_topic loading the content whether or not it is there already.
LoadIfEmpty_always(reg, f, topic) ==
    IF topic # 0
    THEN [topic |-> topic, reg |-> load_topic_content(reg, f, topic)]
    ELSE [topic |-> topic, reg |-> reg]

\* The body of get_topic after the lookup: `if topic and not topic.content`
LoadIfEmpty(reg, f, topic) ==
    IF topic # 0 /\ reg.content[topic] = << >>
    THEN [topic |-> topic, reg |-> load_topic_content(reg, f, topic)]
    ELSE [topic |-> topic, reg |-> reg]

\* get_topic looking the id up as it is written.
get_topic_case_sensitive(reg, f, topic_id) == LoadIfEmpty(reg, f, topics_get(topic_id))

\* get_topic(topic_id): [topic |-> position or 0 for None, reg |-> registry]
get_topic(reg, f, topic_id) == LoadIfEmpty(reg, f, topics_get(lower(topic_id)))

\* find_topics_by_keyword with the containment turned round: the keyword in
\* the query instead of the query in the keyword.
find_topics_by_keyword_reversed(keyword) ==
    LET kw == strip(lower(keyword))
    IN  {i \in TopicIndex :
            \E k \in DOMAIN topics[i].keywords : In(lower(topics[i].keywords[k]), kw)}

\* find_topics_by_keyword finding nothing for the empty keyword.
find_topics_by_keyword_nonempty(keyword) ==
    LET kw == strip(lower(keyword))
    IN  {i \in TopicIndex :
            /\ kw # << >>
            /\ \E k \in DOMAIN topics[i].keywords : In(kw, lower(topics[i].keywords[k]))}

\* find_topics_by_keyword(keyword): the topics one of whose keywords contains it
find_topics_by_keyword(keyword) ==
    LET kw == strip(lower(keyword))
    IN  {i \in TopicIndex :
            \E k \in DOMAIN topics[i].keywords : In(kw, lower(topics[i].keywords[k]))}

----------------------------------------------------------------------------
(* The completion endpoint: openai_client.chat.completions.create *)

\* An exception: the module of its class and the classes it is an instance of.
Exc(module, classes) == [module |-> module, classes |-> classes]

OPENAI == <<"o", "p", "e", "n", "a", "i">>

BUILTINS == <<"b", "u", "i", "l", "t", "i", "n", "s">>

APIError == {"APIError", "OpenAIError", "Exception"}

AuthenticationError ==
    Exc(OPENAI, {"AuthenticationError", "APIStatusError"} \cup APIError)

APIConnectionError == Exc(OPENAI, {"APIConnectionError"} \cup APIError)

APITimeoutError ==
    Exc(OPENAI, {"APITimeoutError", "APIConnectionError"} \cup APIError)

RateLimitError == Exc(OPENAI, {"RateLimitError", "APIStatusError"} \cup APIError)

BadRequestError == Exc(OPENAI, {"BadRequestError", "APIStatusError"} \cup APIError)

ValueError == Exc(BUILTINS, {"ValueError", "Exception"})

IndexError == Exc(BUILTINS, {"IndexError", "LookupError", "Exception"})

isinstance(e, class) == class \in e.classes

\* What one call of the endpoint does: it answers with
\* response.choices[0].message.content (a string or None), answers with no
\* choices at all, or raises.
Answers(text) == [kind |-> "answers", content |-> text, exc |-> ValueError]

NoChoices == [kind |-> "no_choices", content |-> None, exc |-> IndexError]

Raises(e) == [kind |-> "raises", content |-> None, exc |-> e]

NotCalled == [kind |-> "not_called", content |-> None, exc |-> ValueError]

----------------------------------------------------------------------------
(* NLPProcessor *)

\* What a call gives its caller: a returned string, or an exception.
Returns(text) == [raised |-> FALSE, value |-> text]

Raised == [raised |-> TRUE, value |-> << >>]

\* Intent(name, confidence), the confidence in tenths
Intent(name, confidence) == [name |-> name, confidence |-> confidence]

\* _detect_intent matching a greeting by equality instead of containment.
ClassifyNormalized_exact(t) ==
    IF t \in greetings THEN Intent("GREETING", 10)
    ELSE IF find_topics_by_keyword(t) # {} THEN Intent("SCHOOL_RELATED", 8)
    ELSE Intent("UNKNOWN", 0)

\* _detect_intent after `text = text.lower().strip()`
ClassifyNormalized(t) ==
    IF \E g \in greetings : In(g, t) THEN Intent("GREETING", 10)
    ELSE IF find_topics_by_keyword(t) # {} THEN Intent("SCHOOL_RELATED", 8)
    ELSE Intent("UNKNOWN", 0)

\* _detect_intent(text)
detect_intent(text) == ClassifyNormalized(strip(lower(text)))

\* responses.get(key, default) for the table entries `hits` with that key
ReplyOf(hits) ==
    IF hits = {} THEN DEFAULT_GREETING
    ELSE responses[CHOOSE i \in hits : TRUE].reply

\* _handle_greeting(text): responses.get(text.lower(), default)
handle_greeting(text) ==
    ReplyOf({i \in DOMAIN responses : responses[i].key = lower(text)})

\* f"## {doc.display_name}\n{doc.description}\n{doc.content}"
DocBlock(c, i) ==
    <<"#", "#", " ">> \o topics[i].display_name \o <<"\n">>
        \o topics[i].description \o <<"\n">> \o c[i]

\* BuildMessages with the query put before the history.
BuildMessages_query_first(c, docs, query, history) ==
    LET context == join(<<"\n", "\n">>, [k \in DOMAIN docs |-> DocBlock(c, docs[k])])
    IN  <<[role |-> "system",
           content |-> SYSTEM_PROMPT_HEAD \o context \o SYSTEM_PROMPT_TAIL]>>
        \o <<[role |-> "user", content |-> query]>>
        \o (IF Truthy(history) THEN history.val ELSE << >>)

\* The messages list: the system prompt, the history if truthy, the query.
BuildMessages(c, docs, query, history) ==
    LET context == join(<<"\n", "\n">>, [k \in DOMAIN docs |-> DocBlock(c, docs[k])])
    IN  <<[role |-> "system",
           content |-> SYSTEM_PROMPT_HEAD \o context \o SYSTEM_PROMPT_TAIL]>>
        \o (IF Truthy(history) THEN history.val ELSE << >>)
        \o <<[role |-> "user", content |-> query]>>

\* Fallback with the slice [1:3] in place of [1:4].
Fallback_two_lines(c, docs) ==
    LET lines == split(c[docs[1]])
    IN  lines[1] \o <<"\n", "\n">> \o join(<<"\n">>, Slice(lines, 1, 3))

\* docs[0].content.split("\n")[0] + "\n\n" + "\n".join(docs[0].content.split("\n")[1:4])
Fallback(c, docs) ==
    LET lines == split(c[docs[1]])
    IN  lines[1] \o <<"\n", "\n">> \o join(<<"\n">>, Slice(lines, 1, 4))

\* ErrorMessage without the branch for RateLimitError.
ErrorMessage_no_rate_limit(e) ==
    IF startswith(e.module, OPENAI)
    THEN IF isinstance(e, "AuthenticationError") THEN MSG_AUTH
         ELSE IF isinstance(e, "APIConnectionError") THEN MSG_CONNECTION
         ELSE MSG_UNAVAILABLE
    ELSE MSG_UNAVAILABLE

\* The except clause: the message for an exception the try block raised.
ErrorMessage(e) ==
    IF startswith(e.module, OPENAI)
    THEN IF isinstance(e, "AuthenticationError") THEN MSG_AUTH
         ELSE IF isinstance(e, "APIConnectionError") THEN MSG_CONNECTION
         ELSE IF isinstance(e, "RateLimitError") THEN MSG_RATE_LIMIT
         ELSE MSG_UNAVAILABLE
    ELSE MSG_UNAVAILABLE

\* `except Exception` narrowed to the endpoint's own exceptions.
Handle_openai_only(e) ==
    IF isinstance(e, "OpenAIError") THEN Returns(ErrorMessage(e)) ELSE Raised

\* `except Exception as e`: the handler returns the message of e; an
\* exception that is no Exception is not caught.
Handle(e) ==
    IF isinstance(e, "Exception") THEN Returns(ErrorMessage(e)) ELSE Raised

\* PostProcess returning result.strip().
PostProcess_stripped(c, docs, result) ==
    IF ~Truthy(result) \/ In(NOT_FOUND_MARKER, result.val)
    THEN Returns(Fallback(c, docs))
    ELSE Returns(strip(result.val))

\* result = response.choices[0].message.content: the fallback when it is
\* falsy or holds the marker, else result itself.
PostProcess(c, docs, result) ==
    IF ~Truthy(result) \/ In(NOT_FOUND_MARKER, result.val)
    THEN Returns(Fallback(c, docs))
    ELSE Returns(result.val)

\* Complete calling the endpoint a second time when the first call raised.
Complete_with_retry(c, docs, completion) ==
    IF completion.kind \in {"raises", "no_choices"}
    THEN [result |-> Handle(completion.exc), calls |-> 2]
    ELSE [result |-> PostProcess(c, docs, completion.content), calls |-> 1]

\* The try block: one call of chat.completions.create, then the answer, the
\* fallback, or the handler.  calls counts the calls of the endpoint.
Complete(c, docs, completion) ==
    IF completion.kind \in {"raises", "no_choices"}
    THEN [result |-> Handle(completion.exc), calls |-> 1]
    ELSE [result |-> PostProcess(c, docs, completion.content), calls |-> 1]

\* _load_topic_content for the topics of `empty`; each writes its own topic.
LoadThese(reg, f, empty) ==
    IF reg.raised THEN reg
    ELSE Registry([i \in TopicIndex |->
                      IF i \in empty
                      THEN load_topic_content(reg, f, i).content[i]
                      ELSE reg.content[i]],
                  reg.reads + Opened(f, empty),
                  \E i \in empty : load_topic_content(reg, f, i).raised)

\* The loop of the all-topics branch: _load_topic_content for every topic
\* whose content is falsy.
LoadEmpty(reg, f) ==
    LoadThese(reg, f, {i \in TopicIndex : reg.content[i] = << >>})

\* The branch `if topic:` after get_topic: the explicit load of a known
\* topic; docs = [topic_def] if topic_def else []
SingleTopic(got, f) ==
    IF got.topic # 0
    THEN [docs |-> <<got.topic>>, reg |-> load_topic_content(got.reg, f, got.topic)]
    ELSE [docs |-> << >>, reg |-> got.reg]

\* The branch `else:`: docs = list(self.topics.values()), loading the empty ones
AllTopics(reg, f) == [docs |-> [i \in TopicIndex |-> i], reg |-> LoadEmpty(reg, f)]

\* ResolveDocs taking every topic when the named topic is unknown.
ResolveDocs_unknown_means_all(reg, f, topic) ==
    IF Truthy(topic) /\ topics_get(lower(topic.val)) # 0
    THEN SingleTopic(get_topic(reg, f, topic.val), f)
    ELSE AllTopics(reg, f)

\* The documents of a call: [docs |-> topic positions in order, reg |-> registry]
ResolveDocs(reg, f, topic) ==
    IF Truthy(topic)
    THEN SingleTopic(get_topic(reg, f, topic.val), f)
    ELSE AllTopics(reg, f)

\* AnyEmpty looking at the first document only.
AnyEmpty_first_only(c, docs) == strip(c[docs[1]]) = << >>

\* for doc in docs: if not doc.content.strip(): return the sentinel
AnyEmpty(c, docs) == \E k \in DOMAIN docs : strip(c[docs[k]]) = << >>

\* What a call of process_query or _retrieve_info did.
Outcome(result, reg, docs, messages, calls) ==
    [result |-> result, content |-> reg.content, reads |-> reg.reads,
     docs |-> docs, messages |-> messages, calls |-> calls]

\* The outcome of _retrieve_info once the endpoint has been called.
Completed(done, reg, docs, messages) ==
    Outcome(done.result, reg, docs, messages, done.calls)

\* _retrieve_info once the documents `sel` are resolved: the two sentinel
\* returns, else the messages and the call of the endpoint.
Respond(sel, query, history, completion) ==
    IF sel.reg.raised THEN Outcome(Raised, sel.reg, sel.docs, << >>, 0)
    ELSE IF sel.docs = << >>
         THEN Outcome(Returns(NOT_FOUND), sel.reg, sel.docs, << >>, 0)
    ELSE IF AnyEmpty(sel.reg.content, sel.docs)
         THEN Outcome(Returns(NOT_FOUND), sel.reg, sel.docs, << >>, 0)
    ELSE Completed(Complete(sel.reg.content, sel.docs, completion), sel.reg, sel.docs,
                   BuildMessages(sel.reg.content, sel.docs, query, history))

\* _retrieve_info(query, topic, history), the endpoint behaving as `completion`
retrieve_info(c, f, query, topic, history, completion) ==
    Respond(ResolveDocs(Registry(c, 0, FALSE), f, topic), query, history, completion)

\* process_query composing from the topics the classifier matched, when it
\* matched any, instead of from the topic it was given.
process_query_matched_topic(c, f, query, topic, history, completion) ==
    IF detect_intent(query).name = "GREETING"
    THEN Outcome(Returns(handle_greeting(query)), Registry(c, 0, FALSE),
                 << >>, << >>, 0)
    ELSE retrieve_info(c, f, query,
                       IF find_topics_by_keyword(query) = {} THEN topic
                       ELSE Some(topics[Position(find_topics_by_keyword(query))].id),
                       history, completion)

\* process_query(query, topic, history)
process_query(c, f, query, topic, history, completion) ==
    IF detect_intent(query).name = "GREETING"
    THEN Outcome(Returns(handle_greeting(query)), Registry(c, 0, FALSE),
                 << >>, << >>, 0)
    ELSE retrieve_info(c, f, query, topic, history, completion)
----------------------------------------------------------------------------
(* DocumentLoader: the keywords of a topic document *)

\* homophone_map of _parse_document: '清真': ['清蒸'], '饭堂': ['食堂'],
\* '餐厅': ['饭厅'], '选课': ['改选', '退选'], '快递': ['配送'],
\* '社团': ['协会', '组织'], '成绩': ['分数', '绩点'], '导师': ['老师', '教授'],
\* '论文': ['文章', '报告'], '作业': ['任务', '练习'],
\* '讲座': ['报告会', '研讨会'], '维修': ['修理', '检修']
homophone_map ==
    <<
      [orig |-> <<"u6e05", "u771f">>,
       variants |-> <<<<"u6e05", "u84b8">>>>],
      [orig |-> <<"u996d", "u5802">>,
       variants |-> <<<<"u98df", "u5802">>>>],
      [orig |-> <<"u9910", "u5385">>,
       variants |-> <<<<"u996d", "u5385">>>>],
      [orig |-> <<"u9009", "u8bfe">>,
       variants |-> <<<<"u6539", "u9009">>, <<"u9000", "u9009">>>>],
      [orig |-> <<"u5feb", "u9012">>,
       variants |-> <<<<"u914d", "u9001">>>>],
      [orig |-> <<"u793e", "u56e2">>,
       variants |-> <<<<"u534f", "u4f1a">>, <<"u7ec4", "u7ec7">>>>],
      [orig |-> <<"u6210", "u7ee9">>,
       variants |-> <<<<"u5206", "u6570">>, <<"u7ee9", "u70b9">>>>],
      [orig |-> <<"u5bfc", "u5e08">>,
       variants |-> <<<<"u8001", "u5e08">>, <<"u6559", "u6388">>>>],
      [orig |-> <<"u8bba", "u6587">>,
       variants |-> <<<<"u6587", "u7ae0">>, <<"u62a5", "u544a">>>>],
      [orig |-> <<"u4f5c", "u4e1a">>,
       variants |-> <<<<"u4efb", "u52a1">>, <<"u7ec3", "u4e60">>>>],
      [orig |-> <<"u8bb2", "u5ea7">>,
       variants |-> <<<<"u62a5", "u544a", "u4f1a">>, <<"u7814", "u8ba8", "u4f1a">>>>],
      [orig |-> <<"u7ef4", "u4fee">>,
       variants |-> <<<<"u4fee", "u7406">>, <<"u68c0", "u4fee">>>>]
    >>

\* s.replace(old, new): every occurrence of old, from the left, none overlapping
RECURSIVE replace(_, _, _)
replace(s, old, new) ==
    IF Len(s) < Len(old) THEN s
    ELSE IF SubSeq(s, 1, Len(old)) = old
         THEN new \o replace(SubSeq(s, Len(old) + 1, Len(s)), old, new)
    ELSE <<Head(s)>> \o replace(Tail(s), old, new)

\* The variants one entry of the map gives kw, taking its first variant only.
VariantsOf_first_only(kw, entry) ==
    IF In(entry.orig, kw)
    THEN <<replace(kw, entry.orig, entry.variants[1])>>
    ELSE << >>

\* `if orig in kw: for var in variants: keywords.append(kw.replace(orig, var))`
VariantsOf(kw, entry) ==
    IF In(entry.orig, kw)
    THEN [v \in DOMAIN entry.variants |-> replace(kw, entry.orig, entry.variants[v])]
    ELSE << >>

\* `for orig, variants in homophone_map.items()`, from entry m on
RECURSIVE VariantsFrom(_, _)
VariantsFrom(kw, m) ==
    IF m > Len(homophone_map) THEN << >>
    ELSE VariantsOf(kw, homophone_map[m]) \o VariantsFrom(kw, m + 1)

\* `for kw in base_keywords: keywords.append(kw); ...`: the list before `set`
RECURSIVE ExpandAll(_)
ExpandAll(base_keywords) ==
    IF base_keywords = << >> THEN << >>
    ELSE <<Head(base_keywords)>> \o VariantsFrom(Head(base_keywords), 1)
             \o ExpandAll(Tail(base_keywords))

\* A Python list whose order is left open: how often each element occurs.
Unordered(xs) ==
    [x \in {xs[k] : k \in DOMAIN xs} |-> Cardinality({k \in DOMAIN xs : xs[k] = x})]

\* list(set(xs)): each element of xs once, in the order the set yields
list_set(xs) == [x \in {xs[k] : k \in DOMAIN xs} |-> 1]

\* The keywords of _parse_document without `keywords = list(set(keywords))`.
parse_keywords_no_dedup(base_keywords) == Unordered(ExpandAll(base_keywords))

\* The keywords of _parse_document for the base keywords of the document.
parse_keywords(base_keywords) == list_set(ExpandAll(base_keywords))

----------------------------------------------------------------------------
(* The inputs of the model *)

\* "你好"
Q_NIHAO ==
    <<"u4f60", "u597d">>

\* "Hello there "
Q_HELLO_THERE ==
    <<"H", "e", "l", "l", "o", " ", "t", "h", "e", "r", "e", " ">>

\* "食堂"
Q_CANTEEN ==
    <<"u98df", "u5802">>

\* "随机字符串"
Q_RANDOM ==
    <<"u968f", "u673a", "u5b57", "u7b26", "u4e32">>

\* "dining"
T_DINING ==
    <<"d", "i", "n", "i", "n", "g">>

\* "COURSES"
T_COURSES_UPPER ==
    <<"C", "O", "U", "R", "S", "E", "S">>

\* "不存在的话题"
T_UNKNOWN ==
    <<"u4e0d", "u5b58", "u5728", "u7684", "u8bdd", "u9898">>

\* "食堂7点开门\n"
ANSWER ==
    <<"u98df", "u5802", "7", "u70b9", "u5f00", "u95e8", "\n">>

\* "抱歉，找不到相关信息。"
ANSWER_WITH_MARKER ==
    <<"u62b1", "u6b49", "uff0c", "u627e", "u4e0d", "u5230", "u76f8", "u5173", "u4fe1", "u606f",
      "u3002">>

\* "切换"
CMD_SWITCH ==
    <<"u5207", "u6362">>

\* "请选择新的话题"
MSG_CHOOSE_TOPIC ==
    <<"u8bf7", "u9009", "u62e9", "u65b0", "u7684", "u8bdd", "u9898">>


\* " Hello "
Q_HELLO_PADDED ==
    <<" ", "H", "e", "l", "l", "o", " ">>

\* "HELLO"
Q_HELLO_UPPER ==
    <<"H", "E", "L", "L", "O">>

\* ""
Q_EMPTY == << >>

\* " \n": nothing but white space
Q_BLANK ==
    <<" ", "\n">>

\* "食", a part of the keyword "食堂"
Q_FOOD ==
    <<"u98df">>

\* "食堂在哪", which holds the keyword "食堂"
Q_CANTEEN_WHERE ==
    <<"u98df", "u5802", "u5728", "u54ea">>

\* "清真食堂", a keyword of dining
Q_HALAL ==
    <<"u6e05", "u771f", "u98df", "u5802">>

\* "清蒸食堂", the homophone variant of "清真食堂"
Q_STEAMED ==
    <<"u6e05", "u84b8", "u98df", "u5802">>

\* "Shi ", which holds "hi"
Q_SIGHING ==
    <<"S", "h", "i", " ">>

\* "谢谢", a key of the reply table
Q_THANKS_ZH ==
    <<"u8c22", "u8c22">>

\* "Thanks ", which normalizes to the table key "thanks"
Q_THANKS_UPPER ==
    <<"T", "h", "a", "n", "k", "s", " ">>

\* "再见", a key of the reply table
Q_BYE ==
    <<"u518d", "u89c1">>

\* "拜拜", a key of the reply table
Q_BYEBYE ==
    <<"u62dc", "u62dc">>

\* The queries process_query is called with.
Queries ==
    {Q_NIHAO, Q_HELLO_THERE, Q_HELLO_PADDED, Q_HELLO_UPPER, Q_CANTEEN, Q_RANDOM,
     Q_THANKS_UPPER}

\* The texts _detect_intent is called with.
IntentQueries ==
    Queries \cup {Q_EMPTY, Q_BLANK, Q_FOOD, Q_CANTEEN_WHERE, Q_HALAL, Q_STEAMED, Q_SIGHING,
                  Q_THANKS_ZH, Q_BYE, Q_BYEBYE}

\* "清真饭堂": two fragments of the map
K_HALAL_DINER ==
    <<"u6e05", "u771f", "u996d", "u5802">>

\* "选课": a fragment with two variants
K_ENROL ==
    <<"u9009", "u8bfe">>

\* "图书馆": no fragment of the map
K_LIBRARY ==
    <<"u56fe", "u4e66", "u9986">>

\* The keywords a document lists.
BaseKeywords == {Q_HALAL, Q_STEAMED, K_HALAL_DINER, K_ENROL, K_LIBRARY}

\* The keyword lists of a document: at most MaxKeywords keywords, repeats allowed.
KeywordLists == UNION {[1..n -> BaseKeywords] : n \in 0..MaxKeywords}

\* "Dining"
T_DINING_MIXED ==
    <<"D", "i", "n", "i", "n", "g">>

\* "TRANSPORTATION"
T_TRANSPORTATION_UPPER ==
    <<"T", "R", "A", "N", "S", "P", "O", "R", "T", "A", "T", "I", "O", "N">>

\* The ids get_topic is called with.
TopicIds == {T_DINING, T_DINING_MIXED, T_COURSES_UPPER, T_TRANSPORTATION_UPPER, T_UNKNOWN}

\* topic: absent, empty, a catalog id, a catalog id in capitals, an unknown id
TopicArgs == {None, Some(<< >>), Some(T_DINING), Some(T_COURSES_UPPER), Some(T_UNKNOWN)}

\* The k-th turn of a supplied history: roles alternate, contents differ.
Turn(k) ==
    [role |-> IF k % 2 = 1 THEN "user" ELSE "assistant",
     content |-> [j \in 1..k |-> "m"]]

History(n) == [k \in 1..n |-> Turn(k)]

Histories == {None} \cup {Some(History(n)) : n \in {0, 2, MaxHistory}}

Completions ==
    {Answers(Some(ANSWER)), Answers(Some(<< >>)), Answers(None),
     Answers(Some(ANSWER_WITH_MARKER)), Answers(Some(NOT_FOUND)), NoChoices,
     Raises(AuthenticationError), Raises(APIConnectionError),
     Raises(APITimeoutError), Raises(RateLimitError), Raises(BadRequestError),
     Raises(ValueError)}

\* The topics whose files are made to vary: the topic the calls name and the
\* last of the catalog.
VariedTopics == {topics_get(T_DINING), 10}

\* The document stores of the model: at most MaxAbnormalFiles of the varied
\* topics have an abnormal file, every other topic has its document.
FileConfigs ==
    UNION {{[i \in TopicIndex |-> IF i \in bad THEN g[i] ELSE NormalFile(i)] :
               g \in [bad -> AbnormalFiles]} :
           bad \in {b \in SUBSET VariedTopics : Cardinality(b) <= MaxAbnormalFiles}}

----------------------------------------------------------------------------
(* Operations *)

\* A call and what it did: the operation, its arguments (for handle_query the
\* ones it handed to process_query), the behaviour of the endpoint if it was
\* called, and the outcome.
Call(op, query, topic, history, completion, out) ==
    [op |-> op, query |-> query, topic |-> topic, history |-> history,
     completion |-> IF out.calls = 0 THEN NotCalled ELSE completion,
     out |-> out]

\* No call is under way: the caller has taken the result of the latest one.
NoCall(reg) ==
    Call("none", << >>, None, None, NotCalled,
         Outcome(Returns(<< >>), reg, << >>, << >>, 0))

Idle == last.op = "none"

\* NLPProcessor() and CampusAssistant(): the registry loads every topic file.
Init ==
    /\ file \in FileConfigs
    /\ content = TopicRegistry(file).content
    /\ message_history = << >>
    /\ current_topic = None
    /\ DEBUG = FALSE
    /\ last = NoCall(Registry(content, 0, FALSE))
    /\ chat_history = "blank"
    /\ current_user = None
    /\ users = << >>
    /\ chat_logs = << >>
    /\ json_users = << >>
    /\ threads = << >>

\* Between two calls a topic document is removed, made unreadable, blanked
\* or restored.
FileChange(i, state) ==
    /\ Idle
    /\ state # file[i]
    /\ file' = [file EXCEPT ![i] = state]
    /\ file' \in FileConfigs
    /\ UNCHANGED <<content, message_history, current_topic, DEBUG, last, chat_history,
                   accounts>>

\* CallerHistory with a turn appended to the list the caller passed.
CallerHistory_extended(history) ==
    IF Truthy(history)
    THEN Some(Append(history.val, [role |-> "user", content |-> << >>]))
    ELSE history

\* The caller's history list once the call is over: _retrieve_info only
\* reads it (`if history: messages.extend(history)`) and keeps no reference.
CallerHistory(history) == history

\* A call returns: the registry keeps the contents it loaded and the caller
\* holds the outcome.
Return(op, query, topic, history, completion, out) ==
    /\ content' = out.content
    /\ last' = Call(op, query, topic, CallerHistory(history), completion, out)

\* processor.process_query(query, topic, history)
ProcessQuery(query, topic, history, completion) ==
    /\ Idle
    /\ Return("process_query", query, topic, history, completion,
              process_query(content, file, query, topic, history, completion))
    /\ UNCHANGED <<file, message_history, current_topic, DEBUG, chat_history, accounts>>

\* processor._retrieve_info(query, topic, history)
RetrieveInfo(query, topic, history, completion) ==
    /\ Idle
    /\ Return("retrieve_info", query, topic, history, completion,
              retrieve_info(content, file, query, topic, history, completion))
    /\ UNCHANGED <<file, message_history, current_topic, DEBUG, chat_history, accounts>>

\* A call that touches no file and no content returns `value`.
Pure(value) == Outcome(Returns(value), Registry(content, 0, FALSE), << >>, << >>, 0)

\* processor._detect_intent(text)
DetectIntent(text) ==
    /\ Idle
    /\ Return("detect_intent", text, None, None, NotCalled, Pure(detect_intent(text)))
    /\ UNCHANGED <<file, message_history, current_topic, DEBUG, chat_history, accounts>>

\* loader._parse_document(filepath), from the base keywords of the file on
ParseDocument(base_keywords) ==
    /\ Idle
    /\ Return("parse_document", base_keywords, None, None, NotCalled,
              Pure(parse_keywords(base_keywords)))
    /\ UNCHANGED <<file, message_history, current_topic, DEBUG, chat_history, accounts>>

\* What get_topic gives its caller: the definition it found (its position,
\* 0 for None) and the registry after the lazy load.
Got(got) ==
    Outcome(IF got.reg.raised THEN Raised ELSE Returns(got.topic), got.reg,
            IF got.topic = 0 THEN << >> ELSE <<got.topic>>, << >>, 0)

\* processor.topic_registry.get_topic(topic_id)
GetTopic(topic_id) ==
    /\ Idle
    /\ Return("get_topic", << >>, Some(topic_id), None, NotCalled,
              Got(get_topic(Registry(content, 0, FALSE), file, topic_id)))
    /\ UNCHANGED <<file, message_history, current_topic, DEBUG, chat_history, accounts>>

\* processor.topic_registry.find_topics_by_keyword(keyword)
FindTopicsByKeyword(keyword) ==
    /\ Idle
    /\ Return("find_topics_by_keyword", keyword, None, None, NotCalled,
              Pure(find_topics_by_keyword(keyword)))
    /\ UNCHANGED <<file, message_history, current_topic, DEBUG, chat_history, accounts>>

\* The caller takes the result; the next call can begin.
Continue ==
    /\ ~Idle
    /\ last' = NoCall(Registry(content, 0, FALSE))
    /\ UNCHANGED <<file, content, message_history, current_topic, DEBUG, chat_history,
                   accounts>>

Next ==
    \/ \E i \in VariedTopics : \E state \in FileStates(i) : FileChange(i, state)
    \/ \E query \in Queries, topic \in TopicArgs, history \in Histories,
          completion \in Completions :
           ProcessQuery(query, topic, history, completion)
    \/ \E topic \in TopicArgs, history \in Histories, completion \in Completions :
           RetrieveInfo(Q_NIHAO, topic, history, completion)
    \/ \E text \in IntentQueries : DetectIntent(text)
    \/ \E base_keywords \in KeywordLists : ParseDocument(base_keywords)
    \/ \E topic_id \in TopicIds : GetTopic(topic_id)
    \/ \E keyword \in IntentQueries : FindTopicsByKeyword(keyword)
    \/ Continue

Spec == Init /\ [][Next]_vars

----------------------------------------------------------------------------
(* get_topic called from several threads on one registry *)

\* A thread: where it is in get_topic, the topic it looked up and what it read
Thread(pc, topic, buf) == [pc |-> pc, topic |-> topic, buf |-> buf]

\* Store adding what was read to the content instead of replacing it.
Store_appending(c, i, buf) == [c EXCEPT ![i] = c[i] \o buf]

\* topic_def.content = f.read(): the attribute is bound to the whole string
Store(c, i, buf) == [c EXCEPT ![i] = buf]

\* Thread t calls get_topic(topic_id): the lookup and `not topic.content`
ThreadCheck(t, topic_id) ==
    /\ threads[t].pc = "call"
    /\ threads' = [threads EXCEPT ![t] =
           Thread(IF topics_get(lower(topic_id)) # 0
                     /\ content[topics_get(lower(topic_id))] = << >>
                  THEN "load" ELSE "done",
                  topics_get(lower(topic_id)), << >>)]
    /\ UNCHANGED <<file, content, message_history, current_topic, DEBUG, last, chat_history,
                   current_user, users, chat_logs, json_users>>

\* Thread t in _load_topic_content: os.path.exists, open and f.read()
ThreadRead(t) ==
    /\ threads[t].pc = "load"
    /\ threads' = [threads EXCEPT ![t] =
           IF file[threads[t].topic].kind = "ok"
           THEN Thread("store", threads[t].topic, file[threads[t].topic].text)
           ELSE Thread("done", threads[t].topic, << >>)]
    /\ UNCHANGED <<file, content, message_history, current_topic, DEBUG, last, chat_history,
                   current_user, users, chat_logs, json_users>>

\* Thread t assigns what it read to topic_def.content and get_topic returns
ThreadStore(t) ==
    /\ threads[t].pc = "store"
    /\ content' = Store(content, threads[t].topic, threads[t].buf)
    /\ threads' = [threads EXCEPT ![t].pc = "done"]
    /\ UNCHANGED <<file, message_history, current_topic, DEBUG, last, chat_history,
                   current_user, users, chat_logs, json_users>>

\* The registry was built while the files of the topics `late` were missing;
\* the files are all in place when the threads start.
InitConcurrent ==
    /\ file = [i \in TopicIndex |-> NormalFile(i)]
    /\ \E late \in SUBSET VariedTopics :
           content = TopicRegistry([i \in TopicIndex |->
                                       IF i \in late THEN Missing ELSE NormalFile(i)]).content
    /\ message_history = << >>
    /\ current_topic = None
    /\ DEBUG = FALSE
    /\ last = NoCall(Registry(content, 0, FALSE))
    /\ chat_history = "blank"
    /\ current_user = None
    /\ users = << >>
    /\ chat_logs = << >>
    /\ json_users = << >>
    /\ threads = [t \in 1..MaxThreads |-> Thread("call", 0, << >>)]

NextConcurrent ==
    \/ \E t \in 1..MaxThreads, topic_id \in {T_DINING, T_TRANSPORTATION_UPPER} :
           ThreadCheck(t, topic_id)
    \/ \E t \in 1..MaxThreads : ThreadRead(t)
    \/ \E t \in 1..MaxThreads : ThreadStore(t)

SpecConcurrent == InitConcurrent /\ [][NextConcurrent]_vars

----------------------------------------------------------------------------
(* DatabaseManager: the tables users and chat_logs; UserManagerJSON *)

\* bcrypt.gensalt(): the salts drawn
Salts == {"salt1", "salt2"}

\* bcrypt.hashpw(password, salt): the hash names its salt and is a function
\* of the password and the salt that differs for different passwords
\* (passwords within the 72 bytes bcrypt reads).
hashpw(password, salt) == <<"$2b$", salt>> \o password

\* bcrypt.checkpw(password, hashed): the password hashed with the salt of
\* `hashed` is `hashed`
checkpw(password, hashed) == hashpw(password, hashed[2]) = hashed

\* SELECT ... FROM users WHERE username = ?: the ids of the rows
RowsOf(us, username) == {i \in DOMAIN us : us[i].username = username}

\* create_user overwriting the credential of an existing username.
create_user_replacing(us, username, password, salt) ==
    IF RowsOf(us, username) # {}
    THEN [users |-> [i \in DOMAIN us |->
                        IF us[i].username = username
                        THEN [us[i] EXCEPT !.password_hash = hashpw(password, salt)]
                        ELSE us[i]],
          result |-> FALSE]
    ELSE [users |-> Append(us, [username |-> username,
                                password_hash |-> hashpw(password, salt)]),
          result |-> TRUE]

\* create_user(username, password): the INSERT fails on a username that is
\* in the table (UNIQUE), which is caught as IntegrityError.
create_user(us, username, password, salt) ==
    IF RowsOf(us, username) # {}
    THEN [users |-> us, result |-> FALSE]
    ELSE [users |-> Append(us, [username |-> username,
                                password_hash |-> hashpw(password, salt)]),
          result |-> TRUE]

\* verify_user(username, password)
verify_user(us, username, password) ==
    IF RowsOf(us, username) # {}
    THEN checkpw(password, us[Position(RowsOf(us, username))].password_hash)
    ELSE FALSE

\* get_user_id(username): the id of the row, 0 for None
get_user_id(us, username) == Position(RowsOf(us, username))

\* log_chat keeping one entry per user: a new entry replaces the user's last.
log_chat_replacing(logs, user_id, query, response, topic, timestamp) ==
    [chat_logs |-> SelectSeq(logs, LAMBDA e : e.user_id # user_id)
                       \o <<[user_id |-> user_id, query |-> query, response |-> response,
                             topic |-> topic, timestamp |-> timestamp]>>,
     result |-> Len(logs) + 1]

\* log_chat(user_id, query, response, topic): one row more, whose id is
\* returned; timestamp is CURRENT_TIMESTAMP.
log_chat(logs, user_id, query, response, topic, timestamp) ==
    [chat_logs |-> Append(logs, [user_id |-> user_id, query |-> query,
                                 response |-> response, topic |-> topic,
                                 timestamp |-> timestamp]),
     result |-> Len(logs) + 1]

\* CURRENT_TIMESTAMP counts seconds: the second of the latest entry, or the next
Clock(logs) ==
    IF logs = << >> THEN {1}
    ELSE {logs[Len(logs)].timestamp, logs[Len(logs)].timestamp + 1}

\* SELECT query, response, timestamp, topic: the columns of row e
Selected(e) ==
    [query |-> e.query, response |-> e.response, timestamp |-> e.timestamp,
     topic |-> e.topic]

\* The orders in which the query can return `n` of the rows `mine`:
\* ORDER BY timestamp DESC LIMIT n, rows of one second in any order.
Newest(logs, mine, n) ==
    {p \in [1..n -> mine] :
        /\ \A a, b \in 1..n : a < b =>
               /\ p[a] # p[b]
               /\ logs[p[a]].timestamp >= logs[p[b]].timestamp
        /\ \A a \in 1..n, i \in mine :
               (\A b \in 1..n : p[b] # i) => logs[i].timestamp <= logs[p[a]].timestamp}

\* get_chat_history(user_id, limit): the lists it can return
get_chat_history(logs, user_id, limit) ==
    LET mine == {i \in DOMAIN logs : logs[i].user_id = user_id}
        n == IF Cardinality(mine) < limit THEN Cardinality(mine) ELSE limit
    IN  {[k \in 1..n |-> Selected(logs[p[k]])] : p \in Newest(logs, mine, n)}

\* UserManagerJSON.register(username, password): users.json keeps the hash
register(js, username, password, salt) ==
    IF username = << >> \/ password = << >>
           \/ \E j \in DOMAIN js : js[j].username = username
    THEN [users |-> js, result |-> FALSE]
    ELSE [users |-> Append(js, [username |-> username,
                                password |-> hashpw(password, salt)]),
          result |-> TRUE]

\* migrate_users(): create_user(username, user_data['password']) for every
\* user of users.json; salts[k] is the salt drawn for the k-th user from the end
RECURSIVE migrate_users(_, _, _)
migrate_users(us, js, salts) ==
    IF js = << >> THEN us
    ELSE migrate_users(create_user(us, js[1].username, js[1].password,
                                   salts[Len(js)]).users,
                       Tail(js), salts)

\* "ann"
U_ANN == <<"a", "n", "n">>

\* "bob"
U_BOB == <<"b", "o", "b">>

Usernames == {U_ANN, U_BOB}

\* "testpass123" and "wrongpass", the passwords of the test
Passwords ==
    {<<"t", "e", "s", "t", "p", "a", "s", "s", "1", "2", "3">>,
     <<"w", "r", "o", "n", "g", "p", "a", "s", "s">>}

\* db_manager.create_user(username, password)
CreateUser(username, password, salt) ==
    /\ Idle
    /\ users' = create_user(users, username, password, salt).users
    /\ Return("create_user", username, Some(password), None, NotCalled,
              Pure(create_user(users, username, password, salt).result))
    /\ UNCHANGED <<file, message_history, current_topic, DEBUG, chat_history,
                   current_user, chat_logs, json_users, threads>>

\* db_manager.verify_user(username, password)
VerifyUser(username, password) ==
    /\ Idle
    /\ Return("verify_user", username, Some(password), None, NotCalled,
              Pure(verify_user(users, username, password)))
    /\ UNCHANGED <<file, message_history, current_topic, DEBUG, chat_history, accounts>>

\* json_manager.register(username, password)
Register(username, password, salt) ==
    /\ Idle
    /\ json_users' = register(json_users, username, password, salt).users
    /\ Return("register", username, Some(password), None, NotCalled,
              Pure(register(json_users, username, password, salt).result))
    /\ UNCHANGED <<file, message_history, current_topic, DEBUG, chat_history,
                   current_user, users, chat_logs, threads>>

\* migrate_users()
MigrateUsers(salts) ==
    /\ Idle
    /\ json_users # << >>
    /\ users' = migrate_users(users, json_users, salts)
    /\ Return("migrate_users", << >>, None, None, NotCalled, Pure(<< >>))
    /\ UNCHANGED <<file, message_history, current_topic, DEBUG, chat_history,
                   current_user, chat_logs, json_users, threads>>

\* db_manager.log_chat(user_id, query, response, topic)
LogChat(user_id, query, response, topic, timestamp) ==
    /\ Idle
    /\ Len(chat_logs) < MaxLogs
    /\ chat_logs' = log_chat(chat_logs, user_id, query, response, topic, timestamp).chat_logs
    /\ Return("log_chat", << >>, topic, None, NotCalled,
              Pure(log_chat(chat_logs, user_id, query, response, topic, timestamp).result))
    /\ UNCHANGED <<file, message_history, current_topic, DEBUG, chat_history,
                   current_user, users, json_users, threads>>

\* db_manager.get_chat_history(user_id, limit), which returns `rows`
GetChatHistory(user_id, limit, rows) ==
    /\ Idle
    /\ Return("get_chat_history", << >>, None, Some(<<user_id, limit>>), NotCalled,
              Pure(rows))
    /\ UNCHANGED <<file, message_history, current_topic, DEBUG, chat_history, accounts>>

\* The database and the JSON store start empty, every topic file in place.
InitDatabase ==
    /\ Init
    /\ Abnormal(file) = {}

NextDatabase ==
    \/ \E username \in Usernames, password \in Passwords, salt \in Salts :
           CreateUser(username, password, salt)
    \/ \E username \in Usernames, password \in Passwords : VerifyUser(username, password)
    \/ \E username \in Usernames, password \in Passwords \cup {<< >>}, salt \in Salts :
           Register(username, password, salt)
    \/ \E salts \in [1..Cardinality(Usernames) -> Salts] : MigrateUsers(salts)
    \/ Continue

SpecDatabase == InitDatabase /\ [][NextDatabase]_vars

\* The exchanges logged for a user: (query, response, topic), no exchange
\* of one user the same as one of another
Exchanges(user_id) ==
    IF user_id = 1
    THEN {<<Q_NIHAO, DEFAULT_GREETING, None>>, <<Q_CANTEEN, ANSWER, Some(T_DINING)>>}
    ELSE {<<Q_RANDOM, NOT_FOUND, Some(T_DINING)>>}

\* The limits asked for: one row, and the default of 50
Limits == {1, 50}

NextLog ==
    \/ \E user_id \in 1..2 : \E x \in Exchanges(user_id), timestamp \in Clock(chat_logs) :
           LogChat(user_id, x[1], x[2], x[3], timestamp)
    \/ \E user_id \in 1..2, limit \in Limits :
           \E rows \in get_chat_history(chat_logs, user_id, limit) :
               GetChatHistory(user_id, limit, rows)
    \/ Continue

SpecLog == InitDatabase /\ [][NextLog]_vars

----------------------------------------------------------------------------
(* CampusAssistant: one chat session *)

\* "change"
CMD_CHANGE ==
    <<"c", "h", "a", "n", "g", "e">>

\* "开启调试"
CMD_DEBUG_ON ==
    <<"u5f00", "u542f", "u8c03", "u8bd5">>

\* "关闭调试"
CMD_DEBUG_OFF ==
    <<"u5173", "u95ed", "u8c03", "u8bd5">>

\* "已成功开启全局调试模式"
MSG_DEBUG_ON ==
    <<"u5df2", "u6210", "u529f", "u5f00", "u542f", "u5168", "u5c40", "u8c03", "u8bd5", "u6a21",
      "u5f0f">>

\* "已成功关闭全局调试模式"
MSG_DEBUG_OFF ==
    <<"u5df2", "u6210", "u529f", "u5173", "u95ed", "u5168", "u5c40", "u8c03", "u8bd5", "u6a21",
      "u5f0f">>

\* "academic"
T_ACADEMIC ==
    <<"a", "c", "a", "d", "e", "m", "i", "c">>

\* The number of latest turns handle_query hands to process_query.
HISTORY_WINDOW == 10

\* "Change", the switch command in mixed case
CMD_CHANGE_MIXED ==
    <<"C", "h", "a", "n", "g", "e">>

\* HistoryWindow keeping the oldest turns instead of the latest.
HistoryWindow_oldest(history) ==
    IF history # << >>
    THEN Some(SubSeq(history, 1,
                     IF Len(history) < HISTORY_WINDOW THEN Len(history)
                     ELSE HISTORY_WINDOW))
    ELSE None

\* list(self.message_history[-10:]) if self.message_history else None
HistoryWindow(history) ==
    IF history # << >> THEN Some(LastN(history, HISTORY_WINDOW)) ELSE None

\* What handle_query does: the response, the new session state, and the
\* process_query call it made, if any.
Handled(result, history, debug, resolver, out) ==
    [result |-> result, message_history |-> history, DEBUG |-> debug,
     resolver |-> resolver, out |-> out]

\* handle_query from the return of process_query on: the two turns are
\* appended to message_history and the response is returned.
UpdateHistory(out, history, debug, user_input) ==
    IF out.result.raised
    THEN Handled(Raised, history, debug, 1, out)
    ELSE Handled(out.result,
                 history \o <<[role |-> "user", content |-> user_input],
                              [role |-> "assistant", content |-> out.result.value]>>,
                 debug, 1, out)

\* A command: handle_query returns before it reaches process_query.
Command(c, text, history, debug) ==
    Handled(Returns(text), history, debug, 0,
            Outcome(Returns(<< >>), Registry(c, 0, FALSE), << >>, << >>, 0))

\* handle_query(user_input)
handle_query(c, f, history, topic, debug, user_input, completion) ==
    IF lower(user_input) \in {CMD_SWITCH, CMD_CHANGE}
    THEN Command(c, MSG_CHOOSE_TOPIC, history, debug)
    ELSE IF In(CMD_DEBUG_ON, user_input)
    THEN Command(c, MSG_DEBUG_ON, history, TRUE)
    ELSE IF In(CMD_DEBUG_OFF, user_input)
    THEN Command(c, MSG_DEBUG_OFF, history, FALSE)
    ELSE UpdateHistory(process_query(c, f, user_input, topic,
                                     HistoryWindow(history), completion),
                       history, debug, user_input)

UserInputs == {Q_NIHAO, Q_CANTEEN, CMD_SWITCH, CMD_CHANGE_MIXED, CMD_DEBUG_ON, CMD_DEBUG_OFF}

SessionCompletions == {Answers(Some(ANSWER))}

SessionTopics == {T_DINING, T_ACADEMIC}

\* The session starts with every topic document in place.
InitSession ==
    /\ Init
    /\ Abnormal(file) = {}

\* The ways the database behaves while handle_query logs.
Sinks == {"ok", "get_user_id raises", "log_chat raises"}

\* Logged without the try/except round the two database calls.
Logged_uncaught(logs, us, user, topic, sink, timestamp, user_input, response) ==
    IF ~Truthy(user) THEN [chat_logs |-> logs, raised |-> FALSE]
    ELSE IF sink = "get_user_id raises" THEN [chat_logs |-> logs, raised |-> TRUE]
    ELSE IF get_user_id(us, user.val) = 0 THEN [chat_logs |-> logs, raised |-> FALSE]
    ELSE IF sink = "log_chat raises" THEN [chat_logs |-> logs, raised |-> TRUE]
    ELSE [chat_logs |-> log_chat(logs, get_user_id(us, user.val), user_input, response,
                                 topic, timestamp).chat_logs,
          raised |-> FALSE]

\* handle_query, `if self.current_user:` on: the exchange is logged under
\* the id of the signed-in user; what the database raises is caught.
Logged(logs, us, user, topic, sink, timestamp, user_input, response) ==
    IF ~Truthy(user) THEN [chat_logs |-> logs, raised |-> FALSE]
    ELSE IF sink = "get_user_id raises" THEN [chat_logs |-> logs, raised |-> FALSE]
    ELSE IF get_user_id(us, user.val) = 0 THEN [chat_logs |-> logs, raised |-> FALSE]
    ELSE IF sink = "log_chat raises" THEN [chat_logs |-> logs, raised |-> FALSE]
    ELSE [chat_logs |-> log_chat(logs, get_user_id(us, user.val), user_input, response,
                                 topic, timestamp).chat_logs,
          raised |-> FALSE]

\* The logging of a handle_query call: commands return before it.
Sunk(did, sink, timestamp, user_input) ==
    IF did.resolver = 1 /\ ~did.result.raised
    THEN Logged(chat_logs, users, current_user, current_topic, sink, timestamp,
                user_input, did.result.value)
    ELSE [chat_logs |-> chat_logs, raised |-> FALSE]

\* handle_query returns: the session, the registry and the log are updated
\* and the caller holds the response.
ReturnHandled(did, logged, user_input, passed, completion) ==
    /\ content' = did.out.content
    /\ message_history' = did.message_history
    /\ DEBUG' = did.DEBUG
    /\ chat_logs' = logged.chat_logs
    /\ last' = [op |-> "handle_query", query |-> user_input, topic |-> current_topic,
                history |-> IF did.resolver = 0 THEN None ELSE passed,
                completion |-> IF did.out.calls = 0 THEN NotCalled ELSE completion,
                out |-> [did.out EXCEPT
                            !.result = IF logged.raised THEN Raised ELSE did.result]]

\* The user sends user_input: on_send calls handle_query.
HandleQuery(user_input, completion, sink, timestamp) ==
    /\ Idle
    /\ Len(message_history) < 2 * MaxQueries
    /\ Len(chat_logs) < MaxLogs
    /\ ReturnHandled(handle_query(content, file, message_history, current_topic,
                                  DEBUG, user_input, completion),
                     Sunk(handle_query(content, file, message_history, current_topic,
                                       DEBUG, user_input, completion),
                          sink, timestamp, user_input),
                     user_input, HistoryWindow(message_history), completion)
    /\ chat_history' = "messages"
    /\ UNCHANGED <<file, current_topic, current_user, users, json_users, threads>>

\* SetTopic starting the history of the session afresh.
SetTopic_clearing(topic_id) ==
    /\ Idle
    /\ current_topic # Some(topic_id)
    /\ current_topic' = Some(topic_id)
    /\ chat_history' = "messages"
    /\ message_history' = << >>
    /\ UNCHANGED <<file, content, DEBUG, last, accounts>>

\* The user picks a topic: set_topic(topic_id)
SetTopic(topic_id) ==
    /\ Idle
    /\ current_topic # Some(topic_id)
    /\ current_topic' = Some(topic_id)
    /\ chat_history' = "messages"
    /\ UNCHANGED <<file, content, message_history, DEBUG, last, accounts>>

\* The user clears the chat: clear_chat() empties the widget
ClearChat ==
    /\ Idle
    /\ chat_history # "blank"
    /\ chat_history' = "blank"
    /\ UNCHANGED <<file, content, message_history, current_topic, DEBUG, last, accounts>>

\* The session's steps; the processor is also called directly, as the tests
\* call it, here with the whole of message_history as the history.
NextSession ==
    \/ \E user_input \in UserInputs, completion \in SessionCompletions :
           HandleQuery(user_input, completion, "ok", 1)
    \/ \E topic_id \in SessionTopics : SetTopic(topic_id)
    \/ \E completion \in SessionCompletions :
           ProcessQuery(Q_CANTEEN, current_topic, Some(message_history), completion)
    \/ ClearChat
    \/ Continue

SpecSession == InitSession /\ [][NextSession]_vars

\* register_user(): create_user, and the new user is signed in
RegisterUser(username, password, salt) ==
    /\ Idle
    /\ users' = create_user(users, username, password, salt).users
    /\ current_user' = IF create_user(users, username, password, salt).result
                       THEN Some(username) ELSE current_user
    /\ UNCHANGED <<file, content, message_history, current_topic, DEBUG, last,
                   chat_history, chat_logs, json_users, threads>>

\* login_user(): verify_user, and the user is signed in
LoginUser(username, password) ==
    /\ Idle
    /\ verify_user(users, username, password)
    /\ current_user # Some(username)
    /\ current_user' = Some(username)
    /\ UNCHANGED <<file, content, message_history, current_topic, DEBUG, last,
                   chat_history, users, chat_logs, json_users, threads>>

\* guest_mode()
GuestMode ==
    /\ Idle
    /\ current_user # None
    /\ current_user' = None
    /\ UNCHANGED <<file, content, message_history, current_topic, DEBUG, last,
                   chat_history, users, chat_logs, json_users, threads>>

\* What the users of the account session type, and their password
AccountInputs == {Q_CANTEEN, CMD_SWITCH}

AccountPassword == <<"t", "e", "s", "t", "p", "a", "s", "s", "1", "2", "3">>

\* A session with accounts: users register, sign in or enter as guests,
\* and the database may fail while an exchange is logged.
NextAccount ==
    \/ \E username \in Usernames : RegisterUser(username, AccountPassword, "salt1")
    \/ \E username \in Usernames, password \in Passwords : LoginUser(username, password)
    \/ GuestMode
    \/ \E user_input \in AccountInputs, sink \in Sinks, timestamp \in Clock(chat_logs) :
           HandleQuery(user_input, Answers(Some(ANSWER)), sink, timestamp)
    \/ Continue

SpecAccount == InitSession /\ [][NextAccount]_vars

----------------------------------------------------------------------------
(* Properties *)

\* The latest call went through _retrieve_info (compose): it was called
\* directly, or process_query was given a query that holds no greeting.
ComposeRan ==
    \/ last.op = "retrieve_info"
    \/ last.op = "process_query"
           /\ last.query \in {Q_CANTEEN, Q_RANDOM, Q_THANKS_UPPER}

\* The latest call called the completion endpoint.
EndpointCalled == ~Idle /\ last.out.calls > 0

\* The latest call returned `text` to its caller.
Returned(text) == ~last.out.result.raised /\ last.out.result.value = text

\* The history turns in the message list the endpoint was given.
Forwarded == SubSeq(last.out.messages, 2, Len(last.out.messages) - 1)

\* C1: process_query returns a string and never raises, whatever the query,
\* the topic, the history, the state of the topic files and the behaviour
\* of the completion call.
C1_ProcessQueryReturnsString ==
    last.op = "process_query" =>
        /\ ~last.out.result.raised
        /\ last.out.result.value \in Seq(STRING)

\* C1 witness: the topic file is unreadable at the explicit load and the
\* completion call raises a ValueError; process_query has returned.
C1_Witness ==
    /\ last.op = "process_query"
    /\ last.topic = Some(T_DINING)
    /\ file[4] = Unreadable
    /\ last.completion = Raises(ValueError)
    /\ Returned(MSG_UNAVAILABLE)

\* C2: for a topic id that names no catalog topic, compose returns the
\* not-found sentinel and does not call the endpoint.
C2_UnknownTopicNotFound ==
    (/\ ComposeRan
     /\ Truthy(last.topic)
     /\ \A i \in TopicIndex : topics[i].id # lower(last.topic.val))
    => Returned(NOT_FOUND) /\ last.out.calls = 0

\* C2 witness: _retrieve_info was called with the unknown id.
C2_Witness ==
    /\ last.op = "retrieve_info"
    /\ last.topic = Some(T_UNKNOWN)
    /\ last.out.docs = << >>

\* C3: for a known topic whose file is missing or unreadable and whose
\* content is therefore still empty, compose returns the sentinel, raises
\* nothing and does not call the endpoint.
C3_MissingFileNotFound ==
    \A i \in TopicIndex :
        (/\ ComposeRan
         /\ Truthy(last.topic)
         /\ topics[i].id = lower(last.topic.val)
         /\ file[i].kind \in {"missing", "unreadable"}
         /\ content[i] = << >>)
        => Returned(NOT_FOUND) /\ last.out.calls = 0

\* C3 witness: compose ran for "dining" with its file unreadable and its
\* content empty.
C3_Witness ==
    /\ ComposeRan
    /\ last.topic = Some(T_DINING)
    /\ file[4] = Unreadable
    /\ content[4] = << >>
    /\ last.out.docs = <<4>>

\* C4: without a topic id compose returns the sentinel exactly when some
\* catalog topic has content that is empty after trimming.
C4_AllTopicsNotFoundIffOneEmpty ==
    (ComposeRan /\ ~Truthy(last.topic)) =>
        (Returned(NOT_FOUND) <=> \E i \in TopicIndex : strip(content[i]) = << >>)

\* C4 witness: only the last topic of the catalog has no content, every
\* other topic has its document, and the all-topics call gave the sentinel.
C4_Witness ==
    /\ ComposeRan
    /\ last.topic = None
    /\ content[10] = << >>
    /\ \A i \in 1..9 : content[i] = Doc(i)
    /\ Returned(NOT_FOUND)

\* C5: a failed completion call gives the message of its failure kind:
\* authentication, connectivity (a timeout is one), rate limit, and the
\* generic message for every other failure; the four messages differ.
C5_ErrorMessages ==
    /\ Cardinality({MSG_AUTH, MSG_CONNECTION, MSG_RATE_LIMIT, MSG_UNAVAILABLE}) = 4
    /\ (EndpointCalled /\ last.completion.kind \in {"raises", "no_choices"}) =>
           /\ last.completion.exc = AuthenticationError => Returned(MSG_AUTH)
           /\ last.completion.exc \in {APIConnectionError, APITimeoutError}
                  => Returned(MSG_CONNECTION)
           /\ last.completion.exc = RateLimitError => Returned(MSG_RATE_LIMIT)
           /\ last.completion.exc \in {BadRequestError, ValueError, IndexError}
                  => Returned(MSG_UNAVAILABLE)

\* C5 witness: the completion call raised a RateLimitError.
C5_Witness ==
    /\ EndpointCalled
    /\ last.completion = Raises(RateLimitError)
    /\ Returned(MSG_RATE_LIMIT)

\* C6: a call calls the endpoint at most once: once when compose resolved a
\* non-empty document set whose contents are all non-empty, never when the
\* call ends in a greeting reply or in the sentinel; a failed call of the
\* endpoint is not repeated.
C6_AtMostOneEndpointCall ==
    (last.op \in {"process_query", "retrieve_info"}) =>
        /\ last.out.calls \in {0, 1}
        /\ last.out.calls = 1 <=>
               /\ ComposeRan
               /\ last.out.docs # << >>
               /\ \A k \in DOMAIN last.out.docs :
                      strip(content[last.out.docs[k]]) # << >>
        /\ Returned(NOT_FOUND) => last.out.calls = 0
        /\ (last.op = "process_query" /\ ~ComposeRan) => last.out.calls = 0

\* C6 witness: the one call of the endpoint raised.
C6_Witness ==
    /\ last.op = "process_query"
    /\ last.completion = Raises(APIConnectionError)
    /\ last.out.calls = 1

\* C7: when the endpoint answers None, the empty string or a text holding
\* the marker, compose returns the first line of the first document, a
\* blank line, and the next three lines (fewer when the document is
\* shorter).
C7_Fallback ==
    (/\ EndpointCalled
     /\ last.completion \in {Answers(None), Answers(Some(<< >>)),
                             Answers(Some(ANSWER_WITH_MARKER)),
                             Answers(Some(NOT_FOUND))})
    => /\ last.out.docs[1] \in {1, 4, 7}
       /\ content[last.out.docs[1]] = Doc(last.out.docs[1])
       /\ last.out.docs[1] = 1 =>
              Returned(<<"a", "1", "\n", "\n", "a", "2", "\n", "a", "3", "\n", "a", "4">>)
       /\ last.out.docs[1] = 4 =>
              Returned(<<"d", "1", "\n", "\n", "d", "2", "\n", "d", "3">>)
       /\ last.out.docs[1] = 7 => Returned(<<"g", "1", "\n", "\n">>)

\* C7 witness: all topics were taken, the first document has five lines and
\* the endpoint answered with a text that holds the marker.
C7_Witness ==
    /\ EndpointCalled
    /\ last.topic = None
    /\ last.completion = Answers(Some(ANSWER_WITH_MARKER))
    /\ Len(split(content[1])) = 5

\* C8: a non-empty answer without the marker is returned as it is.
C8_AnswerVerbatim ==
    (/\ EndpointCalled
     /\ last.completion.kind = "answers"
     /\ Truthy(last.completion.content)
     /\ ~In(NOT_FOUND_MARKER, last.completion.content.val))
    => Returned(last.completion.content.val)

\* C8 witness: the endpoint answered "食堂7点开门\n".
C8_Witness ==
    /\ EndpointCalled
    /\ last.completion = Answers(Some(ANSWER))
    /\ Returned(ANSWER)

C10_MessageList ==
    (last.op \in {"process_query", "retrieve_info"} /\ EndpointCalled) =>
        LET turns == IF last.history.none THEN << >> ELSE last.history.val
            msgs  == last.out.messages
        IN  /\ Len(msgs) = Len(turns) + 2
            /\ msgs[1].role = "system"
            /\ \A k \in 2..Len(msgs) : msgs[k].role # "system"
            /\ \A k \in DOMAIN turns : msgs[k + 1] = turns[k]
            /\ msgs[Len(msgs)] = [role |-> "user", content |-> last.query]

\* C10 witness: the endpoint was called with a history of two turns.
C10_Witness ==
    /\ last.op = "retrieve_info"
    /\ EndpointCalled
    /\ last.history = Some(History(2))

\* The text _detect_intent classifies: the query lowercased and trimmed.
Normalized == strip(lower(last.query))

\* The query of the latest call holds a greeting phrase.
HoldsGreeting == \E g \in greetings : In(g, Normalized)

Keywords == DOMAIN last.out.result.value

\* The base keywords the latest _parse_document call was given, as a set.
Base == {last.query[k] : k \in DOMAIN last.query}

\* C13 as stated: a query without a greeting that lies inside an expanded
\* variant of a base keyword of some topic is classified as a topic match,
\* even when it lies inside no base keyword.
C13_MatchesExpandedKeywords ==
    (/\ last.op = "detect_intent"
     /\ ~HoldsGreeting
     /\ \E i \in TopicIndex : \E k \in DOMAIN topics[i].keywords :
            \E x \in DOMAIN parse_keywords(<<topics[i].keywords[k]>>) :
                In(Normalized, lower(x)))
    => last.out.result.value = Intent("SCHOOL_RELATED", 8)

\* C15: the expanded keywords are exactly the base keywords and, for every
\* base keyword k and every fragment o of the map that occurs in k, k with o
\* replaced by each variant of o; nothing made by two substitutions in a row
\* is added.
C15_ExpansionIsSingleSubstitutions ==
    last.op = "parse_document" =>
        /\ Keywords = Base \cup UNION {UNION {
               {replace(k, homophone_map[m].orig, homophone_map[m].variants[v]) :
                   v \in DOMAIN homophone_map[m].variants} :
               m \in {n \in DOMAIN homophone_map : In(homophone_map[n].orig, k)}} :
               k \in Base}
        /\ last.query = <<Q_HALAL>> => Keywords = {Q_HALAL, Q_STEAMED}
        /\ last.query = <<K_ENROL>> =>
               Keywords = {K_ENROL, <<"u6539", "u9009">>, <<"u9000", "u9009">>}
        /\ last.query = <<K_HALAL_DINER>> =>
               Keywords = {K_HALAL_DINER, Q_HALAL, <<"u6e05", "u84b8", "u996d", "u5802">>}
        /\ last.query = <<K_LIBRARY>> => Keywords = {K_LIBRARY}

\* C15 witness: "清真饭堂" was expanded; "清蒸食堂", two substitutions away,
\* is not among its keywords.
C15_Witness ==
    /\ last.op = "parse_document"
    /\ last.query = <<K_HALAL_DINER>>
    /\ Q_HALAL \in Keywords
    /\ Q_STEAMED \notin Keywords

C14_GreetingReplyByNormalizedKey ==
    (last.op = "process_query" /\ HoldsGreeting) =>
        /\ \A i \in DOMAIN responses :
               responses[i].key = Normalized => Returned(responses[i].reply)
        /\ (\A i \in DOMAIN responses : responses[i].key # Normalized)
               => Returned(DEFAULT_GREETING)

\* The catalog position of the topic id of the latest call is i.
Names(i) == Truthy(last.topic) /\ topics[i].id = lower(last.topic.val)

\* The latest call is get_topic, or compose with a topic id.
AsksForTopic ==
    \/ last.op = "get_topic"
    \/ ComposeRan /\ Truthy(last.topic)

\* C17: get_topic on a topic whose content is loaded reads no file and
\* leaves the content as it is, so a second call finds the same content.
C17_GetTopicReadsLoadedTopicOnce ==
    [][\A i \in TopicIndex :
           (Idle /\ content[i] # << >> /\ (last.op = "get_topic" /\ Names(i))')
           => /\ last'.out.result = Returns(i)
              /\ last'.out.reads = 0
              /\ content' = content]_vars

\* C17 witness: get_topic returned "dining", loaded earlier, without reading
\* its file, which is blank by now.
C17_Witness ==
    /\ last.op = "get_topic"
    /\ last.topic = Some(T_DINING)
    /\ file[4] = Readable(Blank)
    /\ content[4] = Doc(4)
    /\ last.out.reads = 0

\* C18: get_topic finds a catalog topic under every spelling of its id in
\* capitals and small letters, and for an id whose lowercase form is no
\* catalog key it returns None and reads no file.
C18_GetTopicIgnoresCase ==
    last.op = "get_topic" =>
        /\ \A i \in TopicIndex : Names(i) => last.out.result = Returns(i)
        /\ (\A i \in TopicIndex : ~Names(i)) =>
               last.out.result = Returns(0) /\ last.out.reads = 0
        /\ last.topic.val \in {T_DINING, T_DINING_MIXED} => last.out.result = Returns(4)
        /\ last.topic.val = T_COURSES_UPPER => last.out.result = Returns(7)
        /\ last.topic.val = T_TRANSPORTATION_UPPER => last.out.result = Returns(10)
        /\ last.topic.val = T_UNKNOWN => last.out.result = Returns(0)

\* C18 witness: get_topic("Dining") returned the dining topic.
C18_Witness ==
    /\ last.op = "get_topic"
    /\ last.topic = Some(T_DINING_MIXED)
    /\ last.out.result = Returns(4)
    /\ last.out.content[4] = Doc(4)

\* C19: a load that fails, at construction or later, leaves the content
\* empty and raises nothing, and a later get_topic or compose for the topic
\* (or compose for all topics) loads the whole text once the file can be
\* read.
C19_FailedLoadLeavesNoPoison ==
    /\ \A i \in TopicIndex : file[i].kind # "ok" => content[i] = << >>
    /\ [][\A i \in TopicIndex :
              (/\ Idle
               /\ content[i] = << >>
               /\ \/ (AsksForTopic /\ Names(i))'
                  \/ (ComposeRan /\ ~Truthy(last.topic))')
              => /\ ~last'.out.result.raised
                 /\ file[i].kind = "ok" => content'[i] = file[i].text
                 /\ file[i].kind # "ok" => content'[i] = << >>]_vars

\* C19 witness: get_topic loaded the dining document in this call, so the
\* load at construction had failed and the file was restored since.
C19_Witness ==
    /\ last.op = "get_topic"
    /\ last.topic = Some(T_DINING)
    /\ last.out.reads = 1
    /\ content[4] = Doc(4)

\* C20 as stated: once a topic's content is populated, no later call
\* changes it, whatever happens to its file.
C20_PopulatedContentNeverChanges ==
    [][\A i \in TopicIndex : content[i] # << >> => content'[i] = content[i]]_vars

\* The replies of the table under the keys "谢谢", "thanks", "再见", "拜拜".
FarewellReplies ==
    {responses[i].reply : i \in {j \in DOMAIN responses :
        responses[j].key \in {Q_THANKS_ZH, strip(lower(Q_THANKS_UPPER)), Q_BYE, Q_BYEBYE}}}

\* C28: process_query never returns the reply keyed "谢谢", "thanks", "再见"
\* or "拜拜": no greeting phrase is one of those keys, a text that
\* normalizes to one of them is not classified GREETING, and the query
\* "Thanks " is answered by compose, which calls the endpoint when the
\* documents it resolved hold text and puts the query last in the message
\* list.
C28_FarewellRepliesUnreachable ==
    /\ Cardinality(FarewellReplies) = 4
    /\ \A i \in DOMAIN responses :
           responses[i].reply \in FarewellReplies => responses[i].key \notin greetings
    /\ (last.op = "process_query" /\ ~last.out.result.raised)
           => last.out.result.value \notin FarewellReplies
    /\ (last.op = "detect_intent"
        /\ strip(lower(last.query)) \in {Q_THANKS_ZH, strip(lower(Q_THANKS_UPPER)),
                                         Q_BYE, Q_BYEBYE})
           => last.out.result.value.name # "GREETING"
    /\ (last.op = "process_query" /\ last.query = Q_THANKS_UPPER)
           => /\ last.out.calls = 1 <=>
                  /\ last.out.docs # << >>
                  /\ \A k \in DOMAIN last.out.docs :
                         strip(content[last.out.docs[k]]) # << >>
              /\ last.out.calls = 1 =>
                     last.out.messages[Len(last.out.messages)]
                         = [role |-> "user", content |-> last.query]

\* C28 witness: "Thanks " went to compose, which returned the completion.
C28_Witness ==
    /\ last.op = "process_query"
    /\ last.query = Q_THANKS_UPPER
    /\ last.out.calls = 1
    /\ Returned(ANSWER)

DocsOf(topic) ==
    IF ~Truthy(topic) THEN [i \in TopicIndex |-> i]
    ELSE IF \E i \in TopicIndex : topics[i].id = lower(topic.val)
         THEN <<CHOOSE i \in TopicIndex : topics[i].id = lower(topic.val)>>
         ELSE << >>

\* C23: a query not classified GREETING, be it a topic match or UNKNOWN,
\* goes to compose with the query, topic and history it came with: the
\* documents are those of the topic argument alone, whatever topics the
\* classifier matched, and the messages carry the given history and then
\* the given query.
C23_NonGreetingDelegatedUnchanged ==
    (last.op = "process_query" /\ last.query \in {Q_CANTEEN, Q_RANDOM})
           => /\ detect_intent(last.query).name
                     = IF last.query = Q_CANTEEN THEN "SCHOOL_RELATED" ELSE "UNKNOWN"
              /\ last.out.docs = DocsOf(last.topic)
              /\ last.out.calls = 1 =>
                     /\ last.out.messages[Len(last.out.messages)]
                            = [role |-> "user", content |-> last.query]
                     /\ Forwarded = IF Truthy(last.history) THEN last.history.val
                                    ELSE << >>

\* C23 witness: the canteen query, which matches the dining topic, was
\* composed from the courses document because that topic was given.
C23_Witness ==
    /\ last.op = "process_query"
    /\ last.query = Q_CANTEEN
    /\ last.topic = Some(T_COURSES_UPPER)
    /\ last.out.calls = 1
    /\ Len(last.out.docs) = 1
    /\ last.out.docs[1] \notin find_topics_by_keyword(Q_CANTEEN)
    /\ find_topics_by_keyword(Q_CANTEEN) # {}
    /\ Forwarded = History(2)

CreatedWith(us, u, p) ==
    \E i \in DOMAIN us, salt \in Salts :
        us[i] = [username |-> u, password_hash |-> hashpw(p, salt)]

\* C25: verify_user(u, p) is True exactly when the table holds u with the
\* credential made from p, so it is False for an unknown username and for
\* any other password; create_user of a username in the table returns
\* False and leaves the table as it is, and create_user of a new username
\* returns True and adds the one row, which verifies with that password
\* and no other. (Passwords within the 72 bytes bcrypt reads.)
C25_VerifyExactlyCreated ==
    /\ [](/\ \A i, j \in DOMAIN users : users[i].username = users[j].username => i = j
          /\ last.op = "verify_user"
                 => last.out.result
                        = Returns(CreatedWith(users, last.query, last.topic.val)))
    /\ [][(Idle /\ last'.op = "create_user")
             => IF RowsOf(users, last'.query) # {}
                THEN /\ last'.out.result = Returns(FALSE)
                     /\ users' = users
                ELSE /\ last'.out.result = Returns(TRUE)
                     /\ Len(users') = Len(users) + 1
                     /\ SubSeq(users', 1, Len(users)) = users
                     /\ \A p \in Passwords :
                            verify_user(users', last'.query, p) <=> p = last'.topic.val]_vars

\* C25 witness: create_user was refused for a username whose credential was
\* made from another password.
C25_Witness ==
    /\ last.op = "create_user"
    /\ last.out.result = Returns(FALSE)
    /\ \E p \in Passwords : p # last.topic.val /\ CreatedWith(users, last.query, p)

\* C30 as stated: after migrate_users, every user registered in users.json
\* with password p whose username was not in the database verifies in the
\* database with p.
C30_MigratedUsersVerify ==
    [][(Idle /\ last'.op = "migrate_users")
         => \A j \in DOMAIN json_users, p \in Passwords :
                (/\ RowsOf(users, json_users[j].username) = {}
                 /\ checkpw(p, json_users[j].password))
                => verify_user(users', json_users[j].username, p)]_vars

\* C24: handle_query returns what the resolver returned, whether the
\* database logs the exchange, raises in get_user_id or raises in log_chat;
\* the log grows by at most the one row of this exchange, and by none for a
\* command or when nobody is signed in.
C24_ResponseIndependentOfLogSink ==
    [][(Idle /\ last'.op = "handle_query")
         => /\ ~last'.out.result.raised
            /\ ~Truthy(current_user) => chat_logs' = chat_logs
            /\ IF last'.query = CMD_SWITCH
               THEN /\ last'.out.result.value = MSG_CHOOSE_TOPIC
                    /\ chat_logs' = chat_logs
               ELSE /\ last'.out.result
                           = process_query(content, file, last'.query, current_topic,
                                           HistoryWindow(message_history),
                                           Answers(Some(ANSWER))).result
                    /\ \/ chat_logs' = chat_logs
                       \/ /\ Len(chat_logs') = Len(chat_logs) + 1
                          /\ SubSeq(chat_logs', 1, Len(chat_logs)) = chat_logs
                          /\ chat_logs'[Len(chat_logs')].query = last'.query
                          /\ chat_logs'[Len(chat_logs')].response = last'.out.result.value
                          /\ users[chat_logs'[Len(chat_logs')].user_id].username
                                 = current_user.val]_vars

\* C24 witness: the first query of a signed-in user was answered and left
\* no row in the log, so the database raised.
C24_Witness ==
    /\ last.op = "handle_query"
    /\ last.query = Q_CANTEEN
    /\ Returned(ANSWER)
    /\ Truthy(current_user)
    /\ get_user_id(users, current_user.val) # 0
    /\ Len(message_history) = 2
    /\ chat_logs = << >>

\* The rows of chat_logs logged for user_id.
Mine(user_id) == {i \in DOMAIN chat_logs : chat_logs[i].user_id = user_id}

\* C26: get_chat_history(user_id, limit) returns rows logged for user_id,
\* each row of the table at most once and with the query, response and
\* topic it was logged with, all of them when they are at most `limit` and
\* else `limit` of them, the newest first, none of them a row of another
\* user; every log_chat returns an id and adds exactly one row, the one it
\* was given.
C26_HistoryIsTheUsersLog ==
    /\ [](last.op = "get_chat_history"
            => /\ Len(last.out.result.value)
                      = IF Cardinality(Mine(last.history.val[1])) < last.history.val[2]
                        THEN Cardinality(Mine(last.history.val[1]))
                        ELSE last.history.val[2]
               /\ \E p \in [DOMAIN last.out.result.value -> Mine(last.history.val[1])] :
                      /\ \A a, b \in DOMAIN p : p[a] = p[b] => a = b
                      /\ \A a \in DOMAIN p :
                             /\ last.out.result.value[a].query = chat_logs[p[a]].query
                             /\ last.out.result.value[a].response = chat_logs[p[a]].response
                             /\ last.out.result.value[a].topic = chat_logs[p[a]].topic
               /\ \A a, b \in DOMAIN last.out.result.value :
                      a < b => last.out.result.value[a].timestamp
                                   >= last.out.result.value[b].timestamp
               /\ \A a \in DOMAIN last.out.result.value :
                      <<last.out.result.value[a].query, last.out.result.value[a].response,
                        last.out.result.value[a].topic>> \in Exchanges(last.history.val[1]))
    /\ [][(Idle /\ last'.op = "log_chat")
             => /\ last'.out.result.value \in 1..MaxLogs
                /\ Len(chat_logs') = Len(chat_logs) + 1
                /\ SubSeq(chat_logs', 1, Len(chat_logs)) = chat_logs
                /\ chat_logs'[Len(chat_logs')].topic = last'.topic
                /\ <<chat_logs'[Len(chat_logs')].query, chat_logs'[Len(chat_logs')].response,
                     chat_logs'[Len(chat_logs')].topic>>
                       \in Exchanges(chat_logs'[Len(chat_logs')].user_id)]_vars

\* C26 witness: the history of the first user was asked for with limit 1
\* when the log held two of their rows and one of the other user.
C26_Witness ==
    /\ last.op = "get_chat_history"
    /\ last.history = Some(<<1, 1>>)
    /\ Cardinality(Mine(1)) = 2
    /\ Cardinality(Mine(2)) = 1
    /\ Len(last.out.result.value) = 1

\* C27: in a session, message_history alternates user and assistant turns
\* from a user turn on; an ordinary query appends its user turn and then
\* the response it returns, after it passed the resolver the window of the
\* turns before it, those made under an earlier topic included; the switch
\* and debug commands append nothing and call no resolver; set_topic and
\* clear_chat leave message_history as it is.
C27_HistoryGrowsByOrdinaryQueriesOnly ==
    /\ [](/\ Len(message_history) % 2 = 0
          /\ \A k \in DOMAIN message_history :
                 message_history[k].role = IF k % 2 = 1 THEN "user" ELSE "assistant")
    /\ [][/\ (Idle /\ last'.op = "handle_query")
              => IF last'.query \in {CMD_SWITCH, CMD_CHANGE_MIXED, CMD_DEBUG_ON, CMD_DEBUG_OFF}
                 THEN /\ message_history' = message_history
                      /\ last'.history = None
                      /\ last'.out.docs = << >>
                      /\ last'.out.calls = 0
                      /\ content' = content
                 ELSE /\ message_history'
                            = message_history
                                  \o <<[role |-> "user", content |-> last'.query],
                                       [role |-> "assistant",
                                        content |-> last'.out.result.value]>>
                      /\ last'.history = HistoryWindow(message_history)
                      /\ last'.out.calls = 1 =>
                             SubSeq(last'.out.messages, 2, Len(last'.out.messages) - 1)
                                 = LastN(message_history, HISTORY_WINDOW)
          /\ (current_topic' # current_topic \/ chat_history' = "blank")
              => message_history' = message_history]_vars

\* C27 witness: a query under the academic topic whose messages carry the
\* two turns of the query before it.
C27_Witness ==
    /\ last.op = "handle_query"
    /\ last.topic = Some(T_ACADEMIC)
    /\ last.query = Q_CANTEEN
    /\ last.out.calls = 1
    /\ Len(last.out.messages) = 4
    /\ last.out.messages[2].content = Q_CANTEEN
    /\ Len(message_history) = 4

\* C21: when several threads load topics of one registry for the first
\* time and the files stay as they are, the content of every topic is at
\* every moment empty or the whole text of its file, and once all the
\* calls have returned the content of every topic asked for is the whole
\* text.
C21_ConcurrentLoadsAreBenign ==
    /\ \A i \in TopicIndex : content[i] \in {<< >>, file[i].text}
    /\ (\A t \in DOMAIN threads : threads[t].pc = "done")
           => \A t \in DOMAIN threads :
                  threads[t].topic # 0 => content[threads[t].topic] = file[threads[t].topic].text

\* C21 witness: two threads both read the file of the same topic and both
\* stored it, and every call has returned.
C21_Witness ==
    /\ \A t \in DOMAIN threads : threads[t].pc = "done"
    /\ \E s, t \in DOMAIN threads :
           /\ s # t
           /\ threads[s].topic = threads[t].topic
           /\ threads[s].buf # << >>
           /\ threads[t].buf # << >>
====
